---- MODULE Spec2Model ----
(***************************************************************************)
(* State-machine model of the video-ai media acquisition and compilation   *)
(* pipeline: the retrying transport (downloadFile), the result cache       *)
(* (VideoAI.withCache), the candidate selector (PexelsVideoProvider and    *)
(* VideoAI.scrapeVideos), the effect engine (VideoEffects) and the         *)
(* compilation engine (VideoAI.compileVideo / generateVideo).              *)
(*                                                                         *)
(* Each component has its own variables and its own next-state relation;   *)
(* a specification per component keeps the other components idle.         *)
(***************************************************************************)
EXTENDS Integers, Sequences, FiniteSets, TLC

VARIABLES
    \* ---- transport: one downloadFile(url, outputPath, {maxRetries}) call
    dlPc,            \* "idle" | "request" | "transfer" | "backoff" | "resolved" | "rejected"
    dlMaxRetries,    \* options.maxRetries of the call
    dlAttempt,       \* loop variable `attempt`
    dlAttempts,      \* number of HTTP requests issued so far (history)
    dlFails,         \* number of attempts that failed so far (history)
    dlBytes,         \* downloadedBytes of the current attempt, in chunks
    dlFile,          \* file at outputPath: "absent" | "partial" | "complete"
    dlUnlink,        \* an fs.unlink(outputPath, cb) was issued and has not run yet
    dlWriterFinished,\* the writer of the current attempt emitted 'finish'
    dlWaits,         \* the setTimeout delays inserted so far, in ms (history)
    dlFailKind,      \* kind of the failure that rejected the call, or "none"
    dlResult         \* value the promise resolved with: "outputPath" or "none"

dlVars == <<dlPc, dlMaxRetries, dlAttempt, dlAttempts, dlFails, dlBytes,
            dlFile, dlUnlink, dlWriterFinished, dlWaits, dlFailKind, dlResult>>

VARIABLES
    \* ---- result cache: VideoAI.cache and the withCache calls in progress
    now,             \* Date.now(), in ms
    cache,           \* this.cache: key -> NoEntry or [data, timestamp]
    callPc,          \* per caller: "idle" | "computing" | "returned" | "failed"
    callKey,         \* per caller: key of its current call
    callResult,      \* per caller: value its last call returned, or NoValue
    callsMade,       \* per caller: number of withCache calls it began (history)
    computeCount,    \* per key: number of invocations of operation() (history)
    hitCount,        \* per key: number of calls served from the cache (history)
    failCount,       \* per key: number of failed computes (history)
    searchRequests,  \* search API requests issued by "videos" computes (history)
    downloadsDone    \* downloads performed by "videos" computes (history)

cacheVars == <<now, cache, callPc, callKey, callResult, callsMade, computeCount,
               hitCount, failCount, searchRequests, downloadsDone>>

VARIABLES
    \* ---- effect engine: one VideoEffects.addEffectBetweenClips call
    fxPc,            \* "idle" | "probe" | "process" | "writeList" | "concat" |
                     \* "cleanup" | "done" | "failed"
    fxN,             \* clips.length
    fxEffect,        \* effect.name
    fxI,             \* loop variable `i`
    fxClips,         \* the clips passed in: their paths, in order
    fxProcessed,     \* processedClips, as clip indices
    fxTemp,          \* indices i whose temp_<i>_ file is on disk
    fxList,          \* concat_list.txt is on disk
    fxOut,           \* the file at outputPath is on disk
    fxOps,           \* external-tool commands started, in order (history)
    fxErr            \* stage whose failure made the call throw, or "none"

fxVars == <<fxPc, fxN, fxClips, fxEffect, fxI, fxProcessed, fxTemp, fxList, fxOut,
            fxOps, fxErr>>

VARIABLES
    \* ---- compilation engine: one VideoAI.compileVideo call
    cvPc,            \* "idle" | "probe" | "render" | "transition" | "mux" |
                     \* "stat" | "cleanup" | "returned" | "thrown"
    cvN,             \* videoFiles.length
    cvSeg,           \* per clip index: state of its segment render
    cvOrder,         \* clip indices in the order their renders succeeded
    cvSegFiles,      \* indices whose segment_<index>.mp4 file is on disk
    cvOutFile,       \* the final output file is on disk
    cvDur,           \* durations (s) of the narration, clips, segments and outputs
    cvErr            \* stage whose failure made the call throw, or "none"

cvVars == <<cvPc, cvN, cvSeg, cvOrder, cvSegFiles, cvOutFile, cvDur, cvErr>>

VARIABLES
    \* ---- pipeline run: one VideoAI.generateVideo call, and cleanup()
    gvPc,            \* "idle" | "script" | "parallel" | "compile" | "returned" | "thrown"
    gvTask,          \* per forked task: "idle" | "running" | "ok" | "failed"
    gvClips,         \* number of clip paths scrapeVideosWithAIQueries returned
    assets,          \* this.assets
    gvFiles,         \* asset files of the run that are on disk
    gvEmpty,         \* those of them that hold zero bytes
    gvErr            \* cause of the throw, or "none"

gvVars == <<gvPc, gvTask, gvClips, assets, gvFiles, gvEmpty, gvErr>>

VARIABLES
    \* ---- candidate provider: PexelsVideoProvider.searchAndDownloadVideos,
    \* one call per search slot (1: exact query, 2: broadened query)
    pvPc,            \* per slot: "idle" | "searching" | "downloading" |
                     \* "fulfilled" | "rejected"
    pvMax,           \* per slot: maxVideos
    pvApi,           \* per slot: searchResult.videos
    pvSel,           \* per slot: qualityVideos
    pvI,             \* per slot: loop variable `i` (start of the batch)
    pvDl,            \* per slot, per position of qualityVideos: the state of
                     \* its download and the Date.now() of its file name
    pvDone           \* per slot: successfulDownloads

pvVars == <<pvPc, pvMax, pvApi, pvSel, pvI, pvDl, pvDone>>

VARIABLES
    \* ---- VideoAI.scrapeVideos calls
    svPc,            \* "idle" | "computing" | "returned" | "thrown"
    svTarget,        \* targetCount of the current call
    svHit,           \* the current call was served from the cache
    svMerged,        \* allVideos of the latest compute (history)
    svResult,        \* `videos` of the latest call
    svCalls          \* number of scrapeVideos calls made (history)

svVars == <<svPc, svTarget, svHit, svMerged, svResult, svCalls>>

VARIABLES
    \* ---- VideoAI.scrapeVideosWithAIQueries calls
    aqPc,            \* "idle" | "queries" | "scraping" | "supplement" | "fallback" |
                     \* "returned" | "thrown"
    aqQueries,       \* videoQueries of the current call
    aqRes,           \* per query: its scrapingPromise, and `videos` of its result
    aqM,             \* allVideos.length at step 5, -1 before
    aqSupp,          \* the supplemental scrapeVideos call of the current call
    aqAll,           \* the paths the call returned
    aqRuns           \* number of calls made (history)

aqVars == <<aqPc, aqQueries, aqRes, aqM, aqSupp, aqAll, aqRuns>>

VARIABLES
    \* ---- PexelsVideoProvider.downloadVideo of one candidate
    lkPc,            \* "idle" | "transferring" | "done"
    lkFiles,         \* video.video_files
    lkUrl,           \* videoUrl
    lkTransfers,     \* downloadFile calls of the current call
    lkReport         \* what the batch reports: "none" | "downloaded" | "failed"

lkVars == <<lkPc, lkFiles, lkUrl, lkTransfers, lkReport>>

VARIABLES
    \* ---- VideoEffects.applyEffect of one clip
    tfPc,            \* "idle" | "running" | "returned" | "thrown"
    tfEffect,        \* effect: its name and its duration
    tfClip,          \* clipDuration
    tfFilter         \* the -vf filter of the command

tfVars == <<tfPc, tfEffect, tfClip, tfFilter>>

VARIABLES
    \* ---- two pipeline runs, on two instances with the same tmpDir, in
    \* VideoEffects.addEffectBetweenClips
    ccPc,            \* per run: "idle" | "process" | "listed" | "concatenated" |
                     \* "returned" | "thrown"
    ccLeft,          \* per run: clips the loop has still to process
    ccList,          \* <tmpDir>/concat_list.txt: the run whose list it holds,
                     \* or "none" when the file does not exist
    ccUsed           \* per run: whose list its concat command read (history)

ccVars == <<ccPc, ccLeft, ccList, ccUsed>>

vars ==
    <<dlVars, cacheVars, fxVars, cvVars, gvVars, pvVars, svVars, aqVars, lkVars,
      tfVars, ccVars>>

\* What each component leaves alone.
notDlVars == <<cacheVars, fxVars, cvVars, gvVars, pvVars, svVars, aqVars, lkVars, tfVars, ccVars>>
notCacheVars == <<dlVars, fxVars, cvVars, gvVars, pvVars, svVars, aqVars, lkVars, tfVars, ccVars>>
notFxVars == <<dlVars, cacheVars, cvVars, gvVars, pvVars, svVars, aqVars, lkVars, tfVars, ccVars>>
notFxCvVars == <<dlVars, cacheVars, gvVars, pvVars, svVars, aqVars, lkVars, tfVars, ccVars>>
notGvVars == <<dlVars, cacheVars, fxVars, cvVars, pvVars, svVars, aqVars, lkVars, tfVars, ccVars>>
notGvCvVars == <<dlVars, cacheVars, fxVars, pvVars, svVars, aqVars, lkVars, tfVars, ccVars>>
notPvVars == <<dlVars, cacheVars, fxVars, cvVars, gvVars, svVars, aqVars, lkVars, tfVars, ccVars>>
\* scrapeVideos acts on the provider, the cache, the clock and the assets.
notSvVars == <<dlVars, fxVars, cvVars, aqVars, lkVars, tfVars, ccVars>>
\* scrapeVideosWithAIQueries acts on the cache, the clock and the assets.
notLkVars == <<dlVars, cacheVars, fxVars, cvVars, gvVars, pvVars, svVars, aqVars, tfVars, ccVars>>
notTfVars ==
    <<dlVars, cacheVars, fxVars, cvVars, gvVars, pvVars, svVars, aqVars, lkVars,
      ccVars>>
notAqVars == <<dlVars, fxVars, cvVars, pvVars, svVars, lkVars, tfVars, ccVars>>
notCcVars ==
    <<dlVars, cacheVars, fxVars, cvVars, gvVars, pvVars, svVars, aqVars, lkVars,
      tfVars>>

----------------------------------------------------------------------------
(* Bounds *)

MaxRetriesIn == 4      \* largest options.maxRetries tried
MaxChunks == 2         \* most 'data' chunks of one transfer
MaxTicks == 4          \* clock steps modelled
MaxCalls == 3          \* withCache calls begun in one run
MaxDownloads == 1      \* downloads one "videos" compute may perform
MaxClips == 3          \* most clips passed to one compilation
MaxResults == 3        \* longest search response of a direct provider call
MaxVideosIn == 2       \* largest maxVideos of a direct provider call
MaxScrapeResults == 1  \* longest search response within scrapeVideos
MaxTarget == 1         \* largest targetCount of a scrapeVideos call
MaxScrapes == 2        \* scrapeVideos calls in one run
MaxScrapeTicks == 1    \* clock advances of one video TTL between scrapeVideos steps
MaxAqRuns == 2         \* scrapeVideosWithAIQueries calls in one run
MaxAqTicks == 1        \* clock advances of one query TTL between those calls
MaxFiles == 2          \* most video_files of one candidate
MaxRuns == 3           \* scrapeVideos calls made on one instance
MaxRunTarget == 2      \* largest targetCount of those calls
MaxRunTicks == 1       \* clock steps between them

----------------------------------------------------------------------------
(* Transport: downloadFile *)

BaseDelayMs == 1000

\* Mutant: the same delay before every retry.
BackoffDelayConstant(attempt) == BaseDelayMs

\* setTimeout(resolve, 1000 * attempt)
BackoffDelay(attempt) == BaseDelayMs * attempt

InitDL ==
    /\ dlPc = "idle"
    /\ dlMaxRetries = 0
    /\ dlAttempt = 0
    /\ dlAttempts = 0
    /\ dlFails = 0
    /\ dlBytes = 0
    /\ dlFile = "absent"
    /\ dlUnlink = FALSE
    /\ dlWriterFinished = FALSE
    /\ dlWaits = <<>>
    /\ dlFailKind = "none"
    /\ dlResult = "none"

\* downloadFile is called: `for (let attempt = 1; attempt <= maxRetries; ...)`.
\* With maxRetries = 0 the loop body never runs and the trailing throw fires.
DownloadFileCall(m) ==
    /\ dlPc = "idle"
    /\ dlMaxRetries' = m
    /\ IF m >= 1
         THEN /\ dlPc' = "request"
              /\ dlAttempt' = 1
              /\ dlAttempts' = 1
              /\ dlFailKind' = "none"
         ELSE /\ dlPc' = "rejected"
              /\ dlAttempt' = 1
              /\ dlAttempts' = 0
              /\ dlFailKind' = "exhausted"
    /\ UNCHANGED <<dlFails, dlBytes, dlFile, dlUnlink, dlWriterFinished,
                   dlWaits, dlResult>>
    /\ UNCHANGED notDlVars

\* `await axios(...)` throws (request error or timeout): the catch block runs.
RequestFail(kind) ==
    /\ dlPc = "request"
    /\ dlFails' = dlFails + 1
    /\ IF dlAttempt = dlMaxRetries
         THEN /\ dlPc' = "rejected"
              /\ dlFailKind' = kind
              /\ dlWaits' = dlWaits
         ELSE /\ dlPc' = "backoff"
              /\ dlFailKind' = "none"
              /\ dlWaits' = Append(dlWaits, BackoffDelay(dlAttempt))
    /\ UNCHANGED <<dlMaxRetries, dlAttempt, dlAttempts, dlBytes, dlFile,
                   dlUnlink, dlWriterFinished, dlResult>>
    /\ UNCHANGED notDlVars

\* The backoff timer fires: next loop iteration, next axios request.
BackoffElapsed ==
    /\ dlPc = "backoff"
    /\ dlPc' = "request"
    /\ dlAttempt' = dlAttempt + 1
    /\ dlAttempts' = dlAttempts + 1
    /\ UNCHANGED <<dlMaxRetries, dlFails, dlBytes, dlFile, dlUnlink,
                   dlWriterFinished, dlWaits, dlFailKind, dlResult>>
    /\ UNCHANGED notDlVars

\* The response arrives: createWriteStream(outputPath), pipe, and the
\* promise of the transfer is returned (not awaited) from inside the try.
RequestOk ==
    /\ dlPc = "request"
    /\ dlPc' = "transfer"
    /\ dlBytes' = 0
    /\ dlFile' = "partial"
    /\ dlWriterFinished' = FALSE
    /\ UNCHANGED <<dlMaxRetries, dlAttempt, dlAttempts, dlFails, dlUnlink,
                   dlWaits, dlFailKind, dlResult>>
    /\ UNCHANGED notDlVars

\* response.data.on('data'): downloadedBytes += chunk.length
DataChunk ==
    /\ dlPc = "transfer"
    /\ dlBytes < MaxChunks
    /\ dlBytes' = dlBytes + 1
    /\ UNCHANGED <<dlPc, dlMaxRetries, dlAttempt, dlAttempts, dlFails, dlFile,
                   dlUnlink, dlWriterFinished, dlWaits, dlFailKind, dlResult>>
    /\ UNCHANGED notDlVars

\* Mutant: the call resolves when the response ends, the writer still flushing.
ResolveOnResponseEnd ==
    /\ dlPc = "transfer"
    /\ dlPc' = "resolved"
    /\ dlResult' = "outputPath"
    /\ UNCHANGED <<dlMaxRetries, dlAttempt, dlAttempts, dlFails, dlBytes, dlFile,
                   dlUnlink, dlWriterFinished, dlWaits, dlFailKind>>
    /\ UNCHANGED notDlVars

\* writer.on('finish'): resolve(outputPath)
WriterFinish ==
    /\ dlPc = "transfer"
    /\ dlPc' = "resolved"
    /\ dlWriterFinished' = TRUE
    /\ dlFile' = "complete"
    /\ dlResult' = "outputPath"
    /\ UNCHANGED <<dlMaxRetries, dlAttempt, dlAttempts, dlFails, dlBytes,
                   dlUnlink, dlWaits, dlFailKind>>
    /\ UNCHANGED notDlVars

\* writer.on('error') / response.data.on('error'): fs.unlink is issued
\* (asynchronous, callback ignored) and the returned promise is rejected.
\* The promise was returned without await, so the rejection leaves the try
\* block uncaught: the call rejects at once, whatever `attempt` is.
TransferError(kind) ==
    /\ dlPc = "transfer"
    /\ dlPc' = "rejected"
    /\ dlFails' = dlFails + 1
    /\ dlUnlink' = TRUE
    /\ dlFailKind' = kind
    /\ UNCHANGED <<dlMaxRetries, dlAttempt, dlAttempts, dlBytes, dlFile,
                   dlWriterFinished, dlWaits, dlResult>>
    /\ UNCHANGED notDlVars

\* The pending fs.unlink(outputPath) runs.
UnlinkDone ==
    /\ dlUnlink
    /\ dlUnlink' = FALSE
    /\ dlFile' = "absent"
    /\ UNCHANGED <<dlPc, dlMaxRetries, dlAttempt, dlAttempts, dlFails, dlBytes,
                   dlWriterFinished, dlWaits, dlFailKind, dlResult>>
    /\ UNCHANGED notDlVars

NextDL ==
    \/ \E m \in 0..MaxRetriesIn : DownloadFileCall(m)
    \/ \E kind \in {"request", "timeout"} : RequestFail(kind)
    \/ BackoffElapsed
    \/ RequestOk
    \/ DataChunk
    \/ WriterFinish
    \/ \E kind \in {"stream", "write"} : TransferError(kind)
    \/ UnlinkDone


\* C1: every downloadFile call that ends in failure made exactly maxRetries
\* HTTP attempts, and no file exists at outputPath once it has failed,
\* whatever the failure kind.
C1_FailedAfterMaxRetriesNoFile ==
    dlPc = "rejected" => (dlAttempts = dlMaxRetries /\ dlFile = "absent")

\* C2: a call whose first j attempts failed and whose attempt j+1 succeeded
\* resolves with the destination path after exactly j+1 attempts, only once
\* the writer has finished, and the destination file exists (and stays).
C2_ResolvesAfterFirstSuccess ==
    dlPc = "resolved" =>
        /\ dlResult = "outputPath"
        /\ dlAttempts = dlFails + 1
        /\ dlFails < dlMaxRetries
        /\ dlWriterFinished
        /\ dlFile = "complete"
        /\ ~dlUnlink

\* Scenario B: two failures, success on the third attempt.
C2_Witness ==
    dlPc = "resolved" /\ dlFails = 2 /\ dlAttempts = 3 /\ dlMaxRetries = 3

C21_TransferErrorRetried ==
    (dlPc = "rejected" /\ dlFailKind \in {"stream", "write"}) =>
        dlAttempts = dlMaxRetries

----------------------------------------------------------------------------
(* Result cache: VideoAI.withCache *)

NoEntry == [none |-> TRUE]
NoValue == [none |-> TRUE]
ErrorValue == [error |-> TRUE]

\* The value the n-th compute for a key produces.
ResultOf(n) == [version |-> n]

Callers == {"c1", "c2"}

\* One key per caching call site (getCacheKey(operation, params), the
\* params being fixed): generateVideo, generateVideoQueries, scrapeVideos.
CacheKeys == {"script", "video_queries", "videos"}

\* scrapeVideos keeps one entry per search text: "videos" stands for the
\* original query (the topic), the others for two AI-generated queries and for
\* the four fallback queries that differ from the topic.
QueryKeys == {"videos", "videos_ai1", "videos_ai2",
              "videos_f1", "videos_f2", "videos_f3", "videos_f4"}

AllCacheKeys == CacheKeys \cup QueryKeys

ScriptTtlMs == 600000
QueriesTtlMs == 600000
VideosTtlMs == 1800000

\* The ttl argument each call site passes to withCache.
TtlOf(key) ==
    CASE key = "script" -> ScriptTtlMs
      [] key = "video_queries" -> QueriesTtlMs
      [] OTHER -> VideosTtlMs

\* generateObject may throw inside the video_queries operation; generateScript
\* catches every failure and the scrapeVideos operation settles every search.
CanFail(key) == key = "video_queries"

\* Mutant: an entry never expires.
CacheHitIgnoresTtl(key, ttl) == cache[key] # NoEntry

\* `cached && Date.now() - cached.timestamp < ttl`
CacheHit(key, ttl) ==
    /\ cache[key] # NoEntry
    /\ now - cache[key].timestamp < ttl

\* `this.cache.set(key, { data: result, timestamp: Date.now() })`
CacheSet(key, result) ==
    [cache EXCEPT ![key] = [data |-> result, timestamp |-> now]]

RECURSIVE SumOver(_, _)
SumOver(f, S) ==
    IF S = {} THEN 0
    ELSE LET x == CHOOSE y \in S : TRUE IN f[x] + SumOver(f, S \ {x})

TotalCalls == SumOver(callsMade, Callers)

InitCache ==
    /\ now = 0
    /\ cache = [k \in AllCacheKeys |-> NoEntry]
    /\ callPc = [c \in Callers |-> "idle"]
    /\ callKey = [c \in Callers |-> "script"]
    /\ callResult = [c \in Callers |-> NoValue]
    /\ callsMade = [c \in Callers |-> 0]
    /\ computeCount = [k \in CacheKeys |-> 0]
    /\ hitCount = [k \in CacheKeys |-> 0]
    /\ failCount = [k \in CacheKeys |-> 0]
    /\ searchRequests = 0
    /\ downloadsDone = 0

\* Time passes (in steps of the shortest ttl, so that an entry's age can be
\* below, equal to and above each ttl).
Tick ==
    /\ now < MaxTicks * QueriesTtlMs
    /\ now' = now + QueriesTtlMs
    /\ UNCHANGED <<cache, callPc, callKey, callResult, callsMade, computeCount,
                   hitCount, failCount, searchRequests, downloadsDone>>
    /\ UNCHANGED notCacheVars

\* withCache(key, operation, ttl) is called: the lookup, and on a hit the
\* return of cached.data; on a miss operation() is invoked and awaited.  The
\* "videos" operation issues its two search requests as soon as it is invoked.
WithCacheBegin(c, key) ==
    /\ callPc[c] # "computing"
    /\ TotalCalls < MaxCalls
    /\ callsMade' = [callsMade EXCEPT ![c] = @ + 1]
    /\ callKey' = [callKey EXCEPT ![c] = key]
    /\ IF CacheHit(key, TtlOf(key))
         THEN /\ callPc' = [callPc EXCEPT ![c] = "returned"]
              /\ callResult' = [callResult EXCEPT ![c] = cache[key].data]
              /\ hitCount' = [hitCount EXCEPT ![key] = @ + 1]
              /\ UNCHANGED <<computeCount, searchRequests>>
         ELSE /\ callPc' = [callPc EXCEPT ![c] = "computing"]
              /\ callResult' = [callResult EXCEPT ![c] = NoValue]
              /\ computeCount' = [computeCount EXCEPT ![key] = @ + 1]
              /\ searchRequests' =
                    IF key = "videos" THEN searchRequests + 2 ELSE searchRequests
              /\ UNCHANGED hitCount
    /\ UNCHANGED <<now, cache, failCount, downloadsDone>>
    /\ UNCHANGED notCacheVars

\* operation() resolves: the result is stored with the current time and
\* returned.  The result is named by the number of the compute that made it.
WithCacheStore(c, result, d) ==
    /\ callPc[c] = "computing"
    /\ cache' = CacheSet(callKey[c], result)
    /\ callPc' = [callPc EXCEPT ![c] = "returned"]
    /\ callResult' = [callResult EXCEPT ![c] = result]
    /\ downloadsDone' = IF callKey[c] = "videos" THEN downloadsDone + d
                                                 ELSE downloadsDone
    /\ UNCHANGED <<now, callKey, callsMade, computeCount, hitCount, failCount,
                   searchRequests>>
    /\ UNCHANGED notCacheVars

\* Mutant: the failure is stored like a result (negative caching).
WithCacheFailCachesError(c) ==
    /\ callPc[c] = "computing"
    /\ CanFail(callKey[c])
    /\ cache' = [cache EXCEPT ![callKey[c]] =
                    [data |-> ErrorValue, timestamp |-> now]]
    /\ callPc' = [callPc EXCEPT ![c] = "failed"]
    /\ callResult' = [callResult EXCEPT ![c] = ErrorValue]
    /\ failCount' = [failCount EXCEPT ![callKey[c]] = @ + 1]
    /\ UNCHANGED <<now, callKey, callsMade, computeCount, hitCount,
                   searchRequests, downloadsDone>>
    /\ UNCHANGED notCacheVars

\* operation() rejects: `await operation()` throws out of withCache before
\* cache.set is reached.
WithCacheFail(c) ==
    /\ callPc[c] = "computing"
    /\ CanFail(callKey[c])
    /\ callPc' = [callPc EXCEPT ![c] = "failed"]
    /\ callResult' = [callResult EXCEPT ![c] = ErrorValue]
    /\ failCount' = [failCount EXCEPT ![callKey[c]] = @ + 1]
    /\ UNCHANGED <<now, cache, callKey, callsMade, computeCount, hitCount,
                   searchRequests, downloadsDone>>
    /\ UNCHANGED notCacheVars

NextCache ==
    \/ Tick
    \/ \E c \in Callers, key \in CacheKeys : WithCacheBegin(c, key)
    \/ \E c \in Callers, d \in 0..MaxDownloads :
          WithCacheStore(c, ResultOf(computeCount[callKey[c]]), d)
    \/ \E c \in Callers : WithCacheFail(c)

\* Caller c begins a withCache call in this step.
Begins(c) == callsMade'[c] = callsMade[c] + 1

\* C4: a withCache call made while the key's entry is younger than the ttl
\* invokes no compute (and, for a video search, issues no search request and
\* no download) and returns the cached value; a call made after the ttl has
\* expired invokes compute again, and its result replaces the entry.
C4_CacheWithinTtl ==
    [][ /\ \A c \in Callers : Begins(c) =>
              LET k == callKey'[c] IN
              /\ (cache[k] # NoEntry /\ now - cache[k].timestamp < TtlOf(k)) =>
                    /\ computeCount' = computeCount
                    /\ callPc'[c] = "returned"
                    /\ callResult'[c] = cache[k].data
                    /\ cache' = cache
                    /\ searchRequests' = searchRequests
                    /\ downloadsDone' = downloadsDone
              /\ (cache[k] # NoEntry /\ now - cache[k].timestamp > TtlOf(k)) =>
                    /\ computeCount'[k] = computeCount[k] + 1
                    /\ callPc'[c] = "computing"
        /\ \A c \in Callers :
              (callPc[c] = "computing" /\ callPc'[c] = "returned") =>
                  cache'[callKey[c]] =
                      [data |-> callResult'[c], timestamp |-> now]
      ]_vars

\* A video search was served from the cache, and after the entry had expired
\* a second compute replaced it.
C4_Witness ==
    /\ hitCount["videos"] >= 1
    /\ computeCount["videos"] = 2
    /\ cache["videos"] # NoEntry
    /\ cache["videos"].data = ResultOf(2)
    /\ cache["videos"].timestamp > VideosTtlMs

\* C5: a failing compute propagates to the caller and leaves the cache
\* unchanged; no entry ever holds a failure, and a call that finds no entry
\* for its key invokes compute.
C5_NoNegativeCaching ==
    /\ [](\A k \in CacheKeys : cache[k] # NoEntry => cache[k].data # ErrorValue)
    /\ [][ /\ \A c \in Callers :
                (callPc[c] = "computing" /\ callPc'[c] = "failed") =>
                    (cache' = cache /\ callResult'[c] = ErrorValue)
           /\ \A c \in Callers : (Begins(c) /\ cache[callKey'[c]] = NoEntry) =>
                /\ callPc'[c] = "computing"
                /\ computeCount'[callKey'[c]] = computeCount[callKey'[c]] + 1
         ]_vars

\* A compute failed, nothing was cached, and the caller's next call with the
\* same key is computing again.
C5_Witness ==
    \E c \in Callers :
        /\ callKey[c] = "video_queries"
        /\ failCount["video_queries"] = 1
        /\ computeCount["video_queries"] = 2
        /\ callsMade[c] = 2
        /\ callPc[c] = "computing"
        /\ cache["video_queries"] = NoEntry

\* C27: a withCache call is served from the cache, without running the
\* operation, exactly when the key has an entry whose age now - timestamp is
\* at most the ttl; an entry whose age equals the ttl is still served.
C27_ServedUpToTtl ==
    [][\A c \in Callers :
          callsMade'[c] = callsMade[c] + 1 =>
             LET key == callKey'[c] IN
             (cache[key] # NoEntry /\ now - cache[key].timestamp <= TtlOf(key))
                <=> (callPc'[c] = "returned" /\ computeCount' = computeCount)]_vars

\* C31: a withCache call that starts while another caller's compute for the
\* same key is still in flight invokes no second compute.
C31_ConcurrentCallersShareCompute ==
    [][\A c \in Callers :
          (/\ Begins(c)
           /\ \E o \in Callers \ {c} :
                 callPc[o] = "computing" /\ callKey[o] = callKey'[c])
             => computeCount' = computeCount]_vars

----------------------------------------------------------------------------
(* Effect engine: VideoEffects.addEffectBetweenClips *)

TransitionNames ==
    {"fadein", "fadeout", "swipeup", "swipedown", "zoomin", "zoomout"}

InitFx ==
    /\ fxPc = "idle"
    /\ fxN = 0
    /\ fxEffect = "fadein"
    /\ fxI = 0
    /\ fxClips = <<>>
    /\ fxProcessed = <<>>
    /\ fxTemp = {}
    /\ fxList = FALSE
    /\ fxOut = FALSE
    /\ fxOps = <<>>
    /\ fxErr = "none"

\* The path of a file: the time stamp generateTempFilePath puts in front, the
\* kind of file and its index.
Path(ts, name, index) == [ts |-> ts, name |-> name, index |-> index]

\* The clip list of a direct call with n clips.
InputClips(n) == [k \in 1..n |-> Path(0, "clip", k - 1)]

\* Entry of addEffectBetweenClips(clips, effect, outputPath) with n clips:
\* the length check, then the duration probes are started for the clips that
\* carry no duration (`probe`), else the processing loop starts at once.
FxEnter(clips, effect, probe) ==
    /\ fxN' = Len(clips)
    /\ fxClips' = clips
    /\ fxEffect' = effect
    /\ fxI' = 0
    /\ fxProcessed' = <<>>
    /\ fxOps' = <<>>
    /\ IF Len(clips) < 2
         THEN fxPc' = "failed" /\ fxErr' = "config"
         ELSE fxPc' = (IF probe THEN "probe" ELSE "process") /\ fxErr' = "none"
    /\ UNCHANGED <<fxTemp, fxList, fxOut>>

\* A direct call of the effect engine.
AddEffectBetweenClips(n, effect, probe) ==
    /\ fxPc = "idle"
    /\ cvPc = "idle"
    /\ FxEnter(InputClips(n), effect, probe)
    /\ UNCHANGED notFxVars

\* `await Promise.all(clips.map(... getDuration ...))`: ffprobe per clip.
FxProbeDone(ok) ==
    /\ fxPc = "probe"
    /\ fxOps' = Append(fxOps, <<"probe">>)
    /\ IF ok THEN fxPc' = "process" /\ fxErr' = fxErr
             ELSE fxPc' = "failed" /\ fxErr' = "probe"
    /\ UNCHANGED <<fxN, fxClips, fxEffect, fxI, fxProcessed, fxTemp, fxList, fxOut>>
    /\ UNCHANGED notFxVars

\* Mutant: the effect is applied to every clip.
ProcessOpAlwaysEffect(i, n) == "effect"

\* `if (i < clipsWithDuration.length - 1)`: applyEffect (a re-encode with
\* the transition filter), else `ffmpeg -c copy`.
ProcessOp(i, n) == IF i < n - 1 THEN "effect" ELSE "copy"

\* Mutant: a failed command of the processing loop is run again.
FxProcessClipRetried(ok, leaves) ==
    /\ fxPc = "process"
    /\ fxI < fxN
    /\ LET op == ProcessOp(fxI, fxN) IN
       /\ fxOps' = Append(fxOps, <<op, fxI>>)
       /\ IF ok
            THEN /\ fxTemp' = fxTemp \cup {fxI}
                 /\ fxProcessed' = Append(fxProcessed, fxI)
                 /\ fxI' = fxI + 1
                 /\ fxPc' = IF fxI + 1 = fxN THEN "writeList" ELSE "process"
            ELSE /\ fxTemp' = IF leaves THEN fxTemp \cup {fxI} ELSE fxTemp
                 /\ UNCHANGED <<fxPc, fxProcessed, fxI>>
    /\ UNCHANGED <<fxN, fxClips, fxEffect, fxList, fxOut, fxErr>>
    /\ UNCHANGED notFxVars

\* One iteration of the processing loop: applyEffect for every clip but the
\* last, `ffmpeg -c copy` for the last.  A failing command throws out of the
\* call; it may or may not leave its (partial) output file (`leaves`).
FxProcessClip(ok, leaves) ==
    /\ fxPc = "process"
    /\ fxI < fxN
    /\ LET op == ProcessOp(fxI, fxN) IN
       /\ fxOps' = Append(fxOps, <<op, fxI>>)
       /\ IF ok
            THEN /\ fxTemp' = fxTemp \cup {fxI}
                 /\ fxProcessed' = Append(fxProcessed, fxI)
                 /\ fxI' = fxI + 1
                 /\ fxPc' = IF fxI + 1 = fxN THEN "writeList" ELSE "process"
                 /\ fxErr' = fxErr
            ELSE /\ fxTemp' = IF leaves THEN fxTemp \cup {fxI} ELSE fxTemp
                 /\ fxPc' = "failed"
                 /\ fxErr' = op
                 /\ UNCHANGED <<fxProcessed, fxI>>
    /\ UNCHANGED <<fxN, fxClips, fxEffect, fxList, fxOut>>
    /\ UNCHANGED notFxVars

\* `await fs.promises.writeFile(concatFile, concatList)`
FxWriteList(ok) ==
    /\ fxPc = "writeList"
    /\ IF ok THEN fxPc' = "concat" /\ fxList' = TRUE /\ fxErr' = fxErr
             ELSE fxPc' = "failed" /\ fxList' = fxList /\ fxErr' = "writeList"
    /\ UNCHANGED <<fxN, fxClips, fxEffect, fxI, fxProcessed, fxTemp, fxOut, fxOps>>
    /\ UNCHANGED notFxVars

\* `ffmpeg -f concat -safe 0 -i concatFile -c copy outputPath`: fails for
\* instance on inputs with mismatched codec parameters.
FxConcat(ok, leaves) ==
    /\ fxPc = "concat"
    /\ fxOps' = Append(fxOps, <<"concat">>)
    /\ IF ok THEN fxPc' = "cleanup" /\ fxOut' = TRUE /\ fxErr' = fxErr
             ELSE fxPc' = "failed" /\ fxOut' = leaves /\ fxErr' = "concat"
    /\ UNCHANGED <<fxN, fxClips, fxEffect, fxI, fxProcessed, fxTemp, fxList>>
    /\ UNCHANGED notFxVars

\* The unlinks of the processed clips and of the list file, then the return.
FxCleanup ==
    /\ fxPc = "cleanup"
    /\ fxTemp' = fxTemp \ {fxProcessed[k] : k \in 1..Len(fxProcessed)}
    /\ fxList' = FALSE
    /\ fxPc' = "done"
    /\ UNCHANGED <<fxN, fxClips, fxEffect, fxI, fxProcessed, fxOut, fxOps, fxErr>>
    /\ UNCHANGED notFxVars

\* The steps of a call in progress.
FxStep ==
    \/ \E ok \in BOOLEAN : FxProbeDone(ok)
    \/ \E ok \in BOOLEAN, leaves \in BOOLEAN : FxProcessClip(ok, leaves)
    \/ \E ok \in BOOLEAN : FxWriteList(ok)
    \/ \E ok \in BOOLEAN, leaves \in BOOLEAN : FxConcat(ok, leaves)
    \/ FxCleanup

NextFx ==
    \/ \E n \in 0..MaxClips, effect \in TransitionNames, probe \in BOOLEAN :
          AddEffectBetweenClips(n, effect, probe)
    \/ FxStep

\* C6: for n >= 2 clips addEffectBetweenClips leaves no temp_<i>_ file and no
\* concatenation list file behind, when it succeeds (with its one output
\* file) and when any external-tool step fails.
C6_NoIntermediateFilesLeft ==
    (fxN >= 2 /\ fxPc \in {"done", "failed"}) =>
        /\ fxTemp = {}
        /\ ~fxList
        /\ fxPc = "done" => fxOut

\* The commands run on the clips so far, the duration probes left out.
ClipOps == SelectSeq(fxOps, LAMBDA op : op[1] \in {"effect", "copy"})

\* C25: with n >= 2 clips the commands on the clips are, in this order, the
\* transition re-encode of clips 0 .. n-2 and the stream copy of clip n-1;
\* the processed clips are listed in the clip order; and the call that has
\* completed has run exactly one concatenation, after all of them.
C25_AllButLastReencoded ==
    /\ \A k \in 1..Len(ClipOps) :
          ClipOps[k] = <<(IF k < fxN THEN "effect" ELSE "copy"), k - 1>>
    /\ Len(ClipOps) <= fxN
    /\ \A k \in 1..Len(fxProcessed) : fxProcessed[k] = k - 1
    /\ fxPc \in {"writeList", "concat"} =>
          (Len(ClipOps) = fxN /\ Len(fxProcessed) = fxN
           /\ \A k \in 1..Len(fxOps) : fxOps[k] # <<"concat">>)
    /\ fxPc \in {"cleanup", "done"} =>
          /\ Len(ClipOps) = fxN
          /\ Len(fxProcessed) = fxN
          /\ fxOps[Len(fxOps)] = <<"concat">>
          /\ Cardinality({k \in 1..Len(fxOps) : fxOps[k] = <<"concat">>}) = 1

\* A call with 3 clips that carry their durations has completed.
C25_Witness ==
    /\ fxPc = "done"
    /\ fxN = 3
    /\ fxOps = <<<<"effect", 0>>, <<"effect", 1>>, <<"copy", 2>>, <<"concat">>>>

----------------------------------------------------------------------------
(* Transition filters: VideoEffects.generateTransitionFilter, applyEffect *)

\* Durations are in tenths of a second. compileVideo passes a transition of
\* 0.5 s; clips last 3 to 60 s.
EffectDurations == {5, 10}
ClipTenths == {30, 100, 600}

Effect(name, duration) == [name |-> name, duration |-> duration]

NoFilter == [name |-> "none", st |-> 0, d |-> 0]

\* The filter string by its parts: the ffmpeg filter, its start time `st`
\* and its length `d` (for the scale and zoompan filters, the time over which
\* the expression t/d runs). `duration` is the second parameter of the
\* function, `endTime` is set to it.
GenerateTransitionFilter(effect, duration) ==
    LET endTime == duration IN
    CASE effect.name = "fadein" -> [name |-> "fade=t=in", st |-> 0, d |-> duration]
      [] effect.name = "fadeout" ->
            [name |-> "fade=t=out", st |-> endTime - duration, d |-> duration]
      [] effect.name \in {"swipeup", "swipedown"} ->
            [name |-> "scale,fade=t=in", st |-> 0, d |-> duration]
      [] effect.name \in {"zoomin", "zoomout"} ->
            [name |-> "zoompan", st |-> 0, d |-> duration]

\* applyEffect(inputPath, outputPath, effect, clipDuration) is called: the
\* filter is generated from effect and clipDuration, the command is started.
ApplyEffect(effect, clipDuration) ==
    /\ tfPc = "idle"
    /\ tfPc' = "running"
    /\ tfEffect' = effect
    /\ tfClip' = clipDuration
    /\ tfFilter' = GenerateTransitionFilter(effect, clipDuration)
    /\ UNCHANGED notTfVars

\* The ffmpeg command ends: outputPath is returned, or the error is rethrown.
ApplyEffectDone(ok) ==
    /\ tfPc = "running"
    /\ tfPc' = IF ok THEN "returned" ELSE "thrown"
    /\ UNCHANGED <<tfEffect, tfClip, tfFilter>>
    /\ UNCHANGED notTfVars

NextTf ==
    \/ \E name \in TransitionNames, duration \in EffectDurations,
          clipDuration \in ClipTenths :
          ApplyEffect(Effect(name, duration), clipDuration)
    \/ \E ok \in BOOLEAN : ApplyEffectDone(ok)

\* C29: the fade-in filter starts at 0 and lasts the duration of the
\* transition; the fade-out filter lasts the duration of the transition and
\* starts that long before the end of the clip.
C29_FadeLastsSpecDuration ==
    /\ (tfPc # "idle" /\ tfEffect.name = "fadein") =>
          (tfFilter.st = 0 /\ tfFilter.d = tfEffect.duration)
    /\ (tfPc # "idle" /\ tfEffect.name = "fadeout") =>
          (tfFilter.st = tfClip - tfEffect.duration
           /\ tfFilter.d = tfEffect.duration)

----------------------------------------------------------------------------
(* Compilation engine: VideoAI.compileVideo *)

ClipIndices(n) == 0..(n - 1)

\* Durations are rationals num / den (seconds), den > 0.
Rat(n, d) == [num |-> n, den |-> d]
Zero == Rat(0, 1)
Leq(a, b) == a.num * b.den <= b.num * a.den
Plus(a, b) == Rat(a.num * b.den + b.num * a.den, a.den * b.den)

\* Durations ffprobe reports for the narration, and durations of the n
\* downloaded clips (the provider keeps clips of 3 to 60 s): all of them
\* long, the first one short, all of them short.
AudioSeconds == {30, 31}

ClipDurations(n) ==
    { [i \in ClipIndices(n) |-> IF i \in short THEN 3 ELSE 60] :
        short \in {{}, {0}, ClipIndices(n)} }

NoDurations ==
    [audio |-> 0, clips |-> <<>>, target |-> Zero, segs |-> <<>>,
     video |-> Zero, out |-> Zero]

\* Mutant: every segment is given the whole narration time.
SegmentDurationUndivided(audio, n) == Rat(audio, 1)

\* const segmentDuration = audioDuration / videoFiles.length
SegmentDuration(audio, n) == Rat(audio, n)

\* ffmpeg -i clip -t segmentDuration: the clip, cut at segmentDuration.
Trimmed(clip, t) == IF Leq(Rat(clip, 1), t) THEN Rat(clip, 1) ELSE t

\* The duration of the concatenation of the segments.
RECURSIVE SumFrom(_, _, _)
SumFrom(segs, i, n) ==
    IF i >= n THEN Zero ELSE Plus(segs[i], SumFrom(segs, i + 1, n))

\* The duration of the transitioned video: the effect filters re-encode the
\* clips (zoompan with fps=30 re-times their frames), so that it is the sum
\* of the segment durations or a stretched one.
TransitionedDurations(segs) ==
    LET sum == SumFrom(segs, 0, cvN) IN {sum, Rat(2 * sum.num, sum.den)}

\* ffmpeg -i video -i audio ... -shortest
Shortest(video, audio) == IF Leq(video, Rat(audio, 1)) THEN video ELSE Rat(audio, 1)

\* generateTempFilePath(`segment_${index}.mp4`)
SegmentPath(index) == Path(now, "segment", index)

\* Mutant: the segment paths are collected as the renders complete.
ProcessedSegmentsAsCompleted(order) ==
    [k \in 1..Len(order) |-> SegmentPath(order[k])]

\* processedSegments = await Promise.all(processingPromises): the value of
\* the k-th promise at position k, whatever the order of completion.
ProcessedSegments(order) ==
    [k \in 1..Len(order) |-> SegmentPath(k - 1)]

\* Mutant: compileVideo starts its first stage whatever the number of clips.
CvEnterUnchecked(n) ==
    /\ cvN' = n
    /\ cvSeg' = [i \in ClipIndices(n) |-> "pending"]
    /\ cvPc' = "probe"
    /\ cvErr' = "none"
    /\ cvDur' = NoDurations
    /\ cvOrder' = <<>>
    /\ UNCHANGED <<cvSegFiles, cvOutFile>>

\* Entry of compileVideo with n clips: the length check precedes the try.
CvEnter(n) ==
    /\ cvN' = n
    /\ cvSeg' = [i \in ClipIndices(n) |-> "pending"]
    /\ IF n < 2 THEN cvPc' = "thrown" /\ cvErr' = "config"
                ELSE cvPc' = "probe" /\ cvErr' = "none"
    /\ cvDur' = NoDurations
    /\ cvOrder' = <<>>
    /\ UNCHANGED <<cvSegFiles, cvOutFile>>

\* A direct call of compileVideo.
CompileVideoCall(n) ==
    /\ cvPc = "idle"
    /\ fxPc = "idle"
    /\ gvPc = "idle"
    /\ CvEnter(n)
    /\ UNCHANGED fxVars
    /\ UNCHANGED notFxCvVars

\* Step 1: stat + getAudioDuration (ffprobe).  On success the segment
\* renders of all clips are started together (videoFiles.map(async ...)).
CvProbeAudio(ok) ==
    /\ cvPc = "probe"
    /\ IF ok
         THEN /\ cvPc' = "render"
              /\ cvSeg' = [i \in ClipIndices(cvN) |-> "running"]
              /\ cvErr' = cvErr
              /\ \E audio \in AudioSeconds, clips \in ClipDurations(cvN) :
                    cvDur' = [cvDur EXCEPT
                                 !.audio = audio,
                                 !.clips = clips,
                                 !.target = SegmentDuration(audio, cvN),
                                 !.segs = [i \in ClipIndices(cvN) |-> Zero]]
         ELSE /\ cvPc' = "thrown"
              /\ cvErr' = "probe"
              /\ cvSeg' = cvSeg
              /\ cvDur' = cvDur
    /\ UNCHANGED <<cvN, cvOrder, cvSegFiles, cvOutFile>>
    /\ UNCHANGED fxVars
    /\ UNCHANGED notFxCvVars

\* The ffmpeg render of segment i ends.  A render keeps running after the
\* call has thrown.  While the call awaits Promise.all: the first failure
\* throws into the catch block; the last success continues into
\* addEffectBetweenClips (clips without duration, effect chosen at random).
CvRenderDone(i, ok, leaves, effect) ==
    /\ cvPc \in {"render", "thrown"}
    /\ i \in ClipIndices(cvN)
    /\ cvSeg[i] = "running"
    /\ cvSeg' = [cvSeg EXCEPT ![i] = IF ok THEN "ok" ELSE "failed"]
    /\ cvOrder' = IF ok THEN Append(cvOrder, i) ELSE cvOrder
    /\ cvSegFiles' = IF ok \/ leaves THEN cvSegFiles \cup {i} ELSE cvSegFiles
    /\ cvDur' = IF ok THEN [cvDur EXCEPT !.segs[i] = Trimmed(cvDur.clips[i], cvDur.target)]
                      ELSE cvDur
    /\ IF cvPc = "render" /\ ~ok
         THEN cvPc' = "thrown" /\ cvErr' = "render" /\ UNCHANGED fxVars
         ELSE IF cvPc = "render" /\ \A j \in ClipIndices(cvN) : cvSeg'[j] = "ok"
                THEN cvPc' = "transition" /\ cvErr' = cvErr
                     /\ FxEnter(ProcessedSegments(cvOrder'), effect, TRUE)
                ELSE UNCHANGED <<cvPc, cvErr>> /\ UNCHANGED fxVars
    /\ UNCHANGED <<cvN, cvOutFile>>
    /\ UNCHANGED notFxCvVars

\* Mutant: the mux is started without awaiting addEffectBetweenClips.
CvTransitionNotAwaited ==
    /\ cvPc = "transition"
    /\ cvPc' = "mux"
    /\ \E video \in TransitionedDurations(cvDur.segs) :
          cvDur' = [cvDur EXCEPT !.video = video]
    /\ UNCHANGED <<cvN, cvOrder, cvSeg, cvSegFiles, cvOutFile, cvErr>>
    /\ UNCHANGED fxVars
    /\ UNCHANGED notFxCvVars

\* addEffectBetweenClips has returned or thrown.
CvTransitionDone ==
    /\ cvPc = "transition"
    /\ fxPc \in {"done", "failed"}
    /\ IF fxPc = "done"
         THEN /\ cvPc' = "mux"
              /\ cvErr' = cvErr
              /\ \E video \in TransitionedDurations(cvDur.segs) :
                    cvDur' = [cvDur EXCEPT !.video = video]
         ELSE /\ cvPc' = "thrown"
              /\ cvErr' = "transition"
              /\ cvDur' = cvDur
    /\ UNCHANGED <<cvN, cvOrder, cvSeg, cvSegFiles, cvOutFile>>
    /\ UNCHANGED fxVars
    /\ UNCHANGED notFxCvVars

\* Step 6: the final ffmpeg mux of the transitioned video and the narration.
CvMux(ok, leaves) ==
    /\ cvPc = "mux"
    /\ IF ok THEN cvPc' = "stat" /\ cvOutFile' = TRUE /\ cvErr' = cvErr
             ELSE cvPc' = "thrown" /\ cvOutFile' = leaves /\ cvErr' = "mux"
    /\ cvDur' = IF ok THEN [cvDur EXCEPT !.out = Shortest(cvDur.video, cvDur.audio)]
                      ELSE cvDur
    /\ UNCHANGED <<cvN, cvOrder, cvSeg, cvSegFiles>>
    /\ UNCHANGED fxVars
    /\ UNCHANGED notFxCvVars

\* Step 7: fs.promises.stat(outputPath)
CvStat(ok) ==
    /\ cvPc = "stat"
    /\ IF ok THEN cvPc' = "cleanup" /\ cvErr' = cvErr
             ELSE cvPc' = "thrown" /\ cvErr' = "stat"
    /\ UNCHANGED <<cvN, cvOrder, cvSeg, cvSegFiles, cvOutFile, cvDur>>
    /\ UNCHANGED fxVars
    /\ UNCHANGED notFxCvVars

\* The unlinks of the processed segments and of the transitioned video
\* (the effect engine's output file), then the return of outputPath.
CvCleanup ==
    /\ cvPc = "cleanup"
    /\ cvSegFiles' = {}
    /\ fxOut' = FALSE
    /\ cvPc' = "returned"
    /\ UNCHANGED <<cvN, cvOrder, cvSeg, cvOutFile, cvDur, cvErr>>
    /\ UNCHANGED <<fxPc, fxN, fxClips, fxEffect, fxI, fxProcessed, fxTemp, fxList,
                   fxOps, fxErr>>
    /\ UNCHANGED notFxCvVars

\* The steps of a compilation in progress.
CvStep ==
    \/ \E ok \in BOOLEAN : CvProbeAudio(ok)
    \/ \E i \in ClipIndices(MaxClips), ok \in BOOLEAN, leaves \in BOOLEAN,
          effect \in TransitionNames : CvRenderDone(i, ok, leaves, effect)
    \/ CvTransitionDone
    \/ \E ok \in BOOLEAN, leaves \in BOOLEAN : CvMux(ok, leaves)
    \/ \E ok \in BOOLEAN : CvStat(ok)
    \/ CvCleanup

NextCv ==
    \/ \E n \in 0..MaxClips : CompileVideoCall(n)
    \/ CvStep
    \/ FxStep

\* C7: on every exit path of compileVideo - the return after a successful
\* compilation and the throw after a failed stage - every rendered segment
\* file and the transitioned intermediate file have been deleted.
C7_SegmentsDeletedOnEveryExit ==
    (cvN >= 2 /\ cvPc \in {"returned", "thrown"}) =>
        (cvSegFiles = {} /\ ~fxOut)

\* a = b as rationals
Eq(a, b) == a.num * b.den = b.num * a.den

\* C16: every clip is rendered with the same target duration
\* audioDuration / clipCount (3 clips and 30 s of narration: 10 s each), a
\* rendered segment being the clip cut at that duration, and the muxed output
\* lasts as long as the shorter of the transitioned video and the narration,
\* so never longer than the narration.
C16_EqualSegmentsAudioBound ==
    /\ cvDur.audio # 0 =>
          /\ cvDur.target.num * cvN = cvDur.audio * cvDur.target.den
          /\ (cvN = 3 /\ cvDur.audio = 30) => Eq(cvDur.target, Rat(10, 1))
          /\ \A i \in ClipIndices(cvN) : cvSeg[i] = "ok" =>
                /\ Leq(cvDur.segs[i], cvDur.target)
                /\ Leq(cvDur.segs[i], Rat(cvDur.clips[i], 1))
                /\ \/ Eq(cvDur.segs[i], cvDur.target)
                   \/ Eq(cvDur.segs[i], Rat(cvDur.clips[i], 1))
    /\ cvPc \in {"stat", "cleanup", "returned"} =>
          /\ Leq(cvDur.out, Rat(cvDur.audio, 1))
          /\ Leq(cvDur.out, cvDur.video)
          /\ Eq(cvDur.out, cvDur.video) \/ Eq(cvDur.out, Rat(cvDur.audio, 1))

\* Scenario C has been compiled: 3 clips longer than 10 s and 30 s of
\* narration, the transitioned video outlasting the narration.
C16_Witness ==
    /\ cvPc = "returned"
    /\ cvN = 3
    /\ cvDur.audio = 30
    /\ \A i \in ClipIndices(3) : Eq(cvDur.segs[i], Rat(10, 1))
    /\ ~Leq(cvDur.video, Rat(30, 1))
    /\ Eq(cvDur.out, Rat(30, 1))

\* The source clips of the entries of the concatenation list, in list order.
ConcatSources == [k \in 1..Len(fxProcessed) |-> fxClips[fxProcessed[k] + 1]]

\* C17: the k-th entry of the concatenation list of a compilation comes from
\* the segment rendered from the k-th clip passed to compileVideo, whatever
\* the order in which the concurrent renders completed, and the segment paths
\* of the compilation are pairwise distinct.
C17_ConcatOrderIsInputOrder ==
    (cvPc # "idle" /\ fxPc # "idle") =>
        /\ Len(fxClips) = cvN
        /\ \A k, l \in 1..Len(fxClips) : k # l => fxClips[k] # fxClips[l]
        /\ \A k \in 1..Len(fxProcessed) :
              /\ ConcatSources[k].name = "segment"
              /\ ConcatSources[k].index = k - 1
        /\ fxPc \in {"concat", "cleanup", "done"} => Len(fxProcessed) = cvN

\* A compilation of 3 clips has returned, the render of the last clip having
\* completed first and that of the first clip last.
C17_Witness ==
    /\ cvPc = "returned"
    /\ cvN = 3
    /\ cvOrder = <<2, 1, 0>>
    /\ fxPc = "done"
    /\ Len(fxProcessed) = 3

\* The place of a stage of compileVideo in probe -> render -> transitions ->
\* mux -> finalize (the check of the output, the deletions, the return).
StageRank(pc) ==
    CASE pc = "idle" -> 0
      [] pc = "probe" -> 1
      [] pc = "render" -> 2
      [] pc = "transition" -> 3
      [] pc = "mux" -> 4
      [] pc = "stat" -> 5
      [] pc = "cleanup" -> 6
      [] pc = "returned" -> 7
      [] OTHER -> 8

\* C22: compileVideo moves from each stage to the next one of probe ->
\* render -> transitions -> mux -> finalize, or fails and stops; the effect
\* engine is started only when every segment render has succeeded, and the
\* mux only when the effect engine has completed.
C22_StagesInOrder ==
    /\ [](/\ (cvPc \in {"transition", "mux", "stat", "cleanup", "returned"}) =>
                \A i \in ClipIndices(cvN) : cvSeg[i] = "ok"
          /\ fxPc # "idle" => \A i \in ClipIndices(cvN) : cvSeg[i] = "ok"
          /\ (cvPc \in {"mux", "stat", "cleanup", "returned"}) => fxPc = "done"
          /\ cvPc \in {"stat", "cleanup", "returned"} => cvOutFile)
    /\ [][cvPc' # cvPc =>
            /\ cvPc # "thrown"
            /\ cvPc # "returned"
            /\ cvPc' = "thrown" \/ StageRank(cvPc') = StageRank(cvPc) + 1]_vars

\* A compilation of 2 clips has gone through every stage and returned.
C22_Witness ==
    /\ cvPc = "returned"
    /\ cvN = 2
    /\ cvOutFile
    /\ fxOps = <<<<"probe">>, <<"effect", 0>>, <<"copy", 1>>, <<"concat">>>>

\* Direct calls of both engines.
NextEngines ==
    \/ \E n \in 0..MaxClips, effect \in TransitionNames, probe \in BOOLEAN :
          AddEffectBetweenClips(n, effect, probe)
    \/ \E n \in 0..MaxClips : CompileVideoCall(n)
    \/ CvStep
    \/ FxStep

\* No external-tool command of either engine has been started and no file of
\* either engine exists.
NothingStarted ==
    /\ fxOps = <<>>
    /\ fxTemp = {}
    /\ ~fxList
    /\ ~fxOut
    /\ cvSegFiles = {}
    /\ ~cvOutFile
    /\ \A i \in DOMAIN cvSeg : cvSeg[i] = "pending"

\* C15: called with fewer than 2 clips, compileVideo and addEffectBetweenClips
\* fail at once with the configuration error: no external-tool command has
\* been started, no file has been created, and nothing further is done for
\* the call (no retry).
C15_TooFewClipsFailAtOnce ==
    /\ [](/\ (cvPc # "idle" /\ cvN < 2) =>
                (cvPc = "thrown" /\ cvErr = "config" /\ fxPc = "idle"
                 /\ NothingStarted)
          /\ (fxPc # "idle" /\ fxN < 2) =>
                (fxPc = "failed" /\ fxErr = "config" /\ cvPc = "idle"
                 /\ NothingStarted))
    /\ [][((cvPc # "idle" /\ cvN < 2) \/ (fxPc # "idle" /\ fxN < 2))
             => UNCHANGED <<cvVars, fxVars>>]_vars

\* addEffectBetweenClips has been called with one clip and has failed.
C15_Witness ==
    /\ fxPc = "failed"
    /\ fxN = 1
    /\ fxErr = "config"

\* C23: no external-tool command is run twice in a call, and once a command
\* has failed no command of a later stage is started: a failed render is
\* followed by no command of the effect engine and no mux, a failed command of
\* the effect engine is its last one and is followed by no mux, and a failed
\* call does nothing more.
C23_ToolFailureIsFatal ==
    /\ [](/\ \A k, l \in 1..Len(fxOps) : k # l => fxOps[k] # fxOps[l]
          /\ (\E i \in DOMAIN cvSeg : cvSeg[i] = "failed") =>
                (cvPc = "thrown" /\ fxPc = "idle" /\ fxOps = <<>> /\ ~cvOutFile)
          /\ fxErr \in {"probe", "effect", "copy", "concat"} =>
                /\ fxPc = "failed"
                /\ fxOps[Len(fxOps)][1] = fxErr
                /\ ~cvOutFile
          /\ cvErr \in {"probe", "render", "transition"} => ~cvOutFile)
    /\ [][/\ fxPc = "failed" => (fxPc' = "failed" /\ fxOps' = fxOps)
          /\ cvPc = "thrown" =>
                /\ cvPc' = "thrown"
                /\ fxOps' = fxOps
                /\ cvOutFile' = cvOutFile
                /\ \A i \in DOMAIN cvSeg :
                      cvSeg[i] # "running" => cvSeg'[i] = cvSeg[i]
          /\ (cvPc' = "mux" /\ cvPc # "mux") => cvPc = "transition"
          /\ (cvPc' = "render" /\ cvPc # "render") => cvPc = "probe"]_vars

\* A compilation of 3 clips has failed because the transition render of its
\* first segment failed.
C23_Witness ==
    /\ cvPc = "thrown"
    /\ cvErr = "transition"
    /\ cvN = 3
    /\ fxErr = "effect"
    /\ fxOps = <<<<"probe">>, <<"effect", 0>>>>

----------------------------------------------------------------------------
(* Pipeline run: VideoAI.generateVideo and VideoAI.cleanup *)

Tasks == {"audio", "videos", "image"}

AudioAsset == [path |-> <<"audio", 0>>, type |-> "audio"]
ImageAsset == [path |-> <<"image", 0>>, type |-> "image"]
VideoAsset(k) == [path |-> <<"clip", k>>, type |-> "video"]

\* The clip assets scrapeVideos pushed for k downloaded clips.
RECURSIVE VideoAssets(_)
VideoAssets(k) == IF k = 0 THEN <<>> ELSE Append(VideoAssets(k - 1), VideoAsset(k))

AssetPaths == {assets[k].path : k \in 1..Len(assets)}

\* The asset paths one run can produce.
RunAssetPaths ==
    {AudioAsset.path, ImageAsset.path} \cup {VideoAsset(k).path : k \in 1..MaxClips}

InitGv ==
    /\ gvPc = "idle"
    /\ gvTask = [t \in Tasks |-> "idle"]
    /\ gvClips = 0
    /\ assets = <<>>
    /\ gvFiles = {}
    /\ gvEmpty = {}
    /\ gvErr = "none"

\* generateVideo(query) is called: step 1, the script through withCache.
GenerateVideoCall ==
    /\ gvPc = "idle"
    /\ cvPc = "idle"
    /\ fxPc = "idle"
    /\ gvPc' = "script"
    /\ UNCHANGED <<gvTask, gvClips, assets, gvFiles, gvEmpty, gvErr>>
    /\ UNCHANGED notGvVars

\* generateScript has resolved (it catches every failure): steps 2-4 are
\* forked together under Promise.all.
GvScriptDone ==
    /\ gvPc = "script"
    /\ gvPc' = "parallel"
    /\ gvTask' = [t \in Tasks |-> "running"]
    /\ UNCHANGED <<gvClips, assets, gvFiles, gvEmpty, gvErr>>
    /\ UNCHANGED notGvVars

\* Mutant: the first fulfilment continues into compileVideo (Promise.race).
GvJoinFirstSettled(t, ok, tasks, clips) ==
    IF gvPc = "parallel" /\ ~ok
      THEN gvPc' = "thrown" /\ gvErr' = t /\ UNCHANGED cvVars
      ELSE IF gvPc = "parallel"
             THEN gvPc' = "compile" /\ gvErr' = gvErr /\ CvEnter(clips)
             ELSE UNCHANGED <<gvPc, gvErr>> /\ UNCHANGED cvVars

\* What follows the settling of task t with the task states `tasks`, while
\* generateVideo awaits Promise.all: the first rejection reaches the catch
\* block (`throw this.handleError(error)`), the last fulfilment continues
\* into compileVideo with the `clips` clip paths.  A task that settles after
\* the throw changes nothing of the call.
GvJoin(t, ok, tasks, clips) ==
    IF gvPc = "parallel" /\ ~ok
      THEN gvPc' = "thrown" /\ gvErr' = t /\ UNCHANGED cvVars
      ELSE IF gvPc = "parallel" /\ \A u \in Tasks : tasks[u] = "ok"
             THEN gvPc' = "compile" /\ gvErr' = gvErr /\ CvEnter(clips)
             ELSE UNCHANGED <<gvPc, gvErr>> /\ UNCHANGED cvVars

\* textToSpeech settles.  On success the file exists, is not empty and is
\* pushed to the assets; a failure may leave the (empty) file behind.
GvAudioDone(ok, leaves) ==
    /\ gvPc \in {"parallel", "thrown"}
    /\ gvTask["audio"] = "running"
    /\ gvTask' = [gvTask EXCEPT !["audio"] = IF ok THEN "ok" ELSE "failed"]
    /\ assets' = IF ok THEN Append(assets, AudioAsset) ELSE assets
    /\ gvFiles' = IF ok \/ leaves THEN gvFiles \cup {AudioAsset.path} ELSE gvFiles
    /\ gvEmpty' = IF ~ok /\ leaves THEN gvEmpty \cup {AudioAsset.path} ELSE gvEmpty
    /\ GvJoin("audio", ok, gvTask', gvClips)
    /\ UNCHANGED gvClips
    /\ UNCHANGED notGvCvVars

\* scrapeVideosWithAIQueries settles, its scrapeVideos calls having pushed k
\* clips to the assets: it resolves with the k >= 1 clip paths, or rejects
\* when also the fallback scrapeVideos finds no video.
GvVideosDone(k, ok) ==
    /\ gvPc \in {"parallel", "thrown"}
    /\ gvTask["videos"] = "running"
    /\ ok => k >= 1
    /\ gvTask' = [gvTask EXCEPT !["videos"] = IF ok THEN "ok" ELSE "failed"]
    /\ assets' = assets \o VideoAssets(k)
    /\ gvFiles' = gvFiles \cup {VideoAsset(j).path : j \in 1..k}
    /\ gvEmpty' = gvEmpty
    /\ gvClips' = IF ok THEN k ELSE gvClips
    /\ GvJoin("videos", ok, gvTask', gvClips')
    /\ UNCHANGED notGvCvVars

\* generateImage settles: images.generate, then downloadFile, then the push.
\* A resolved downloadFile is followed by the push at once, whatever the
\* number of bytes written (`empty`: a 200 response without body).
GvImageDone(ok, leaves, empty) ==
    /\ gvPc \in {"parallel", "thrown"}
    /\ gvTask["image"] = "running"
    /\ gvTask' = [gvTask EXCEPT !["image"] = IF ok THEN "ok" ELSE "failed"]
    /\ assets' = IF ok THEN Append(assets, ImageAsset) ELSE assets
    /\ gvFiles' = IF ok \/ leaves THEN gvFiles \cup {ImageAsset.path} ELSE gvFiles
    /\ gvEmpty' = IF (ok \/ leaves) /\ empty THEN gvEmpty \cup {ImageAsset.path} ELSE gvEmpty
    /\ GvJoin("image", ok, gvTask', gvClips)
    /\ UNCHANGED gvClips
    /\ UNCHANGED notGvCvVars

\* compileVideo has returned or thrown: the result record is returned, or
\* the catch block rethrows.
GvCompileDone ==
    /\ gvPc = "compile"
    /\ cvPc \in {"returned", "thrown"}
    /\ IF cvPc = "returned" THEN gvPc' = "returned" /\ gvErr' = gvErr
                            ELSE gvPc' = "thrown" /\ gvErr' = "compile"
    /\ UNCHANGED <<gvTask, gvClips, assets, gvFiles, gvEmpty>>
    /\ UNCHANGED notGvVars

\* Mutant: the unlinks are not caught, so that a failing one rejects
\* Promise.all and the asset list is not emptied.
CleanupCallUncaught(stuck) ==
    /\ gvPc \in {"returned", "thrown"}
    /\ assets # <<>>
    /\ stuck \subseteq (AssetPaths \cap gvFiles)
    /\ gvFiles' = (gvFiles \ AssetPaths) \cup stuck
    /\ gvEmpty' = gvEmpty \cap gvFiles'
    /\ assets' = IF stuck = {} THEN <<>> ELSE assets
    /\ UNCHANGED <<gvPc, gvTask, gvClips, gvErr>>
    /\ UNCHANGED notGvVars

\* cleanup(), called by the owner of the instance after the run: every asset
\* is unlinked, a failing unlink is logged (the files in `stuck` stay), and
\* the asset list is emptied.
CleanupCall(stuck) ==
    /\ gvPc \in {"returned", "thrown"}
    /\ assets # <<>>
    /\ stuck \subseteq (AssetPaths \cap gvFiles)
    /\ gvFiles' = (gvFiles \ AssetPaths) \cup stuck
    /\ gvEmpty' = gvEmpty \cap gvFiles'
    /\ assets' = <<>>
    /\ UNCHANGED <<gvPc, gvTask, gvClips, gvErr>>
    /\ UNCHANGED notGvVars

NextGv ==
    \/ GenerateVideoCall
    \/ GvScriptDone
    \/ \E ok \in BOOLEAN, leaves \in BOOLEAN : GvAudioDone(ok, leaves)
    \/ \E k \in 0..MaxClips, ok \in BOOLEAN : GvVideosDone(k, ok)
    \/ \E ok \in BOOLEAN, leaves \in BOOLEAN, empty \in BOOLEAN :
          GvImageDone(ok, leaves, empty)
    \/ GvCompileDone
    \/ \E stuck \in SUBSET RunAssetPaths : CleanupCall(stuck)
    \/ CvStep
    \/ FxStep

\* The fork and the join of one pipeline run, up to the entry of compileVideo.
NextFork ==
    \/ GenerateVideoCall
    \/ GvScriptDone
    \/ \E ok \in BOOLEAN, leaves \in BOOLEAN : GvAudioDone(ok, leaves)
    \/ \E k \in 0..MaxClips, ok \in BOOLEAN : GvVideosDone(k, ok)
    \/ \E ok \in BOOLEAN, leaves \in BOOLEAN, empty \in BOOLEAN :
          GvImageDone(ok, leaves, empty)

\* C24: the three tasks are started together when the script is there;
\* compileVideo is entered in the step in which the last of them succeeds,
\* all three having succeeded, and is never entered once one has failed.
C24_ForkThenJoinBeforeCompile ==
    /\ [](/\ cvPc # "idle" =>
                /\ gvPc = "compile"
                /\ \A t \in Tasks : gvTask[t] = "ok"
                /\ cvN = gvClips
          /\ (\E t \in Tasks : gvTask[t] = "failed") =>
                (gvPc = "thrown" /\ cvPc = "idle")
          /\ gvPc \in {"idle", "script"} => \A t \in Tasks : gvTask[t] = "idle"
          /\ gvPc = "parallel" => \A t \in Tasks : gvTask[t] \in {"running", "ok"}
          /\ gvPc = "compile" => cvPc # "idle")
    /\ [][/\ (\E t \in Tasks : gvTask[t] = "idle" /\ gvTask'[t] # "idle") =>
                /\ gvPc = "script"
                /\ \A t \in Tasks : gvTask[t] = "idle" /\ gvTask'[t] = "running"
          /\ (cvPc = "idle" /\ cvPc' # "idle") =>
                /\ gvPc = "parallel"
                /\ \E t \in Tasks : gvTask[t] = "running" /\ gvTask'[t] = "ok"]_vars

\* The image was the last of the three tasks to succeed, and compileVideo has
\* been entered with the 2 clips acquired.
C24_Witness ==
    /\ gvPc = "compile"
    /\ cvPc = "probe"
    /\ cvN = 2
    /\ assets[Len(assets)] = ImageAsset

\* A run up to the entry of compileVideo, and cleanup() after a failed run.
NextCleanup ==
    \/ NextFork
    \/ \E stuck \in SUBSET RunAssetPaths : CleanupCall(stuck)

\* C28: a step that deletes a file or empties the asset list is a cleanup()
\* that returns normally: the asset list is empty after it, the state of the
\* run and its error are as before, only files of assets have gone and none
\* has appeared, whichever deletions failed.
C28_CleanupBestEffort ==
    [][((gvFiles' # gvFiles /\ gvFiles' \subseteq gvFiles)
           \/ (assets # <<>> /\ assets' = <<>>)) =>
         /\ assets' = <<>>
         /\ gvPc' = gvPc
         /\ gvErr' = gvErr
         /\ gvFiles' \subseteq gvFiles
         /\ (gvFiles \ gvFiles') \subseteq AssetPaths]_vars

\* After a failed run, cleanup() has deleted the narration although the
\* deletion of a clip failed: the clip file is still there, the asset list
\* is empty.
C28_Witness ==
    /\ gvPc = "thrown"
    /\ assets = <<>>
    /\ gvTask["audio"] = "ok"
    /\ AudioAsset.path \notin gvFiles
    /\ VideoAsset(1).path \in gvFiles

\* C8: when generateVideo fails for a fatal cause, every asset file produced
\* so far in the run has been deleted when the error reaches the caller.
C8_AssetsDeletedBeforeError ==
    gvPc = "thrown" => (AssetPaths \cap gvFiles = {})

\* C14: every asset appended to the asset list (video, audio or image)
\* refers, in the step that appends it, to a file that exists and is not
\* empty.
C14_AppendedAssetsNonEmpty ==
    [][\A k \in (Len(assets) + 1)..Len(assets') :
          assets'[k].path \in gvFiles' \ gvEmpty']_vars

\* C37: when generateVideo or compileVideo has delivered an error to its
\* caller, nothing the run forked is still in progress: no generation or
\* acquisition task and no segment render.
C37_NothingRunsAfterError ==
    /\ gvPc = "thrown" => \A t \in Tasks : gvTask[t] # "running"
    /\ cvPc = "thrown" => \A i \in DOMAIN cvSeg : cvSeg[i] # "running"

----------------------------------------------------------------------------
(* Candidate provider: PexelsVideoProvider.searchAndDownloadVideos *)

Slots == {1, 2}

Min(a, b) == IF a <= b THEN a ELSE b

Candidate(i, w, h, d) == [id |-> i, width |-> w, height |-> h, duration |-> d]

\* Search results the remote API can return: durations at and around the
\* limits of the accepted range, and two candidates of equal provider score.
Candidates ==
    { Candidate(1, 20, 20, 3), Candidate(2, 10, 10, 6), Candidate(3, 30, 10, 60),
      Candidate(4, 40, 40, 2), Candidate(5, 40, 40, 61) }

\* The ten candidates of the "mountains" scenario.
ScenarioA ==
    << Candidate(101, 1920, 1080, 2),  Candidate(102, 1920, 1080, 5),
       Candidate(103, 1920, 1080, 8),  Candidate(104, 1920, 1080, 15),
       Candidate(105, 1920, 1080, 40), Candidate(106, 1920, 1080, 65),
       Candidate(107, 1920, 1080, 20), Candidate(108, 1920, 1080, 3),
       Candidate(109, 1920, 1080, 50), Candidate(110, 1920, 1080, 12) >>

\* The sequences of at most n distinct candidates.
RECURSIVE ApiLists(_, _)
ApiLists(cands, n) ==
    IF n = 0 THEN {<<>>}
    ELSE LET shorter == ApiLists(cands, n - 1) IN
         shorter \cup
         UNION { { Append(l, c) : c \in cands \ {l[k] : k \in 1..Len(l)} } :
                 l \in {x \in shorter : Len(x) = n - 1} }

MinDuration == 3
MaxDuration == 60
ProviderWeight == 100
ScrapeWeight == 1000
MaxConcurrentDownloads == 5
RetryAttempts == 3

\* The candidates of the search responses that come without video_files, so
\* that `video.video_files.filter` throws.
MalformedIds == {3}
DefaultMaxVideos == 10
PrimaryMaxVideos == 6
SecondaryMaxVideos == 4

\* Mutant: the lower limit is exclusive.
DurationOkExclusive(v) == v.duration > MinDuration /\ v.duration <= MaxDuration

\* `video.duration >= 3 && video.duration <= 60`
DurationOk(v) == v.duration >= MinDuration /\ v.duration <= MaxDuration

\* `width * height + duration * weight`
Score(v, weight) == v.width * v.height + v.duration * weight

\* Array.prototype.sort with the comparator bScore - aScore is a stable sort
\* by descending score: insertion behind the elements that do not score lower.
InsertByScore(sorted, x, weight) ==
    LET p == Cardinality({i \in 1..Len(sorted) :
                             Score(sorted[i], weight) >= Score(x, weight)}) IN
    SubSeq(sorted, 1, p) \o <<x>> \o SubSeq(sorted, p + 1, Len(sorted))

RECURSIVE SortByScore(_, _)
SortByScore(seq, weight) ==
    IF seq = <<>> THEN <<>>
    ELSE InsertByScore(SortByScore(SubSeq(seq, 1, Len(seq) - 1), weight),
                       seq[Len(seq)], weight)

\* Array.prototype.slice(0, n)
Slice(seq, n) == SubSeq(seq, 1, Min(n, Len(seq)))

\* qualityVideos = videos.filter(...).sort(...).slice(0, maxVideos)
QualityVideos(videos, maxVideos) ==
    Slice(SortByScore(SelectSeq(videos, DurationOk), ProviderWeight), maxVideos)

\* The DownloadedVideo of candidate v, its file named pexels_<id>_<stamp>.mp4
DownloadedVideo(v, stamp) ==
    [id |-> v.id, width |-> v.width, height |-> v.height,
     duration |-> v.duration, localPath |-> <<v.id, stamp>>]

\* Mutant: every remaining candidate is started at once.
BatchUnbounded(sel, i) == (i + 1)..Len(sel)

\* The positions (1-based) of the batch that starts at loop index i.
Batch(sel, i) == (i + 1)..Min(i + MaxConcurrentDownloads, Len(sel))

\* The download states once the batch at loop index i has been started.
StartBatch(dl, sel, i) ==
    [pos \in 1..Len(sel) |->
        IF pos \in Batch(sel, i) THEN [st |-> "running", stamp |-> now, runs |-> 1]
                                 ELSE dl[pos]]

InitPv ==
    /\ pvPc = [s \in Slots |-> "idle"]
    /\ pvMax = [s \in Slots |-> 0]
    /\ pvApi = [s \in Slots |-> <<>>]
    /\ pvSel = [s \in Slots |-> <<>>]
    /\ pvI = [s \in Slots |-> 0]
    /\ pvDl = [s \in Slots |-> <<>>]
    /\ pvDone = [s \in Slots |-> <<>>]

\* Entry of searchAndDownloadVideos(query, maxVideos, options) on the slots
\* of `calls` (slot -> maxVideos): the search request of each is issued.
PvEnter(calls) ==
    /\ pvPc' = [s \in Slots |-> IF s \in DOMAIN calls THEN "searching" ELSE pvPc[s]]
    /\ pvMax' = [s \in Slots |-> IF s \in DOMAIN calls THEN calls[s] ELSE pvMax[s]]
    /\ pvApi' = [s \in Slots |-> IF s \in DOMAIN calls THEN <<>> ELSE pvApi[s]]
    /\ pvSel' = [s \in Slots |-> IF s \in DOMAIN calls THEN <<>> ELSE pvSel[s]]
    /\ pvI' = [s \in Slots |-> IF s \in DOMAIN calls THEN 0 ELSE pvI[s]]
    /\ pvDl' = [s \in Slots |-> IF s \in DOMAIN calls THEN <<>> ELSE pvDl[s]]
    /\ pvDone' = [s \in Slots |-> IF s \in DOMAIN calls THEN <<>> ELSE pvDone[s]]

\* The provider calls of scrapeVideos have been consumed: their locals are gone.
PvLeave ==
    /\ pvPc' = [s \in Slots |-> "idle"]
    /\ pvMax' = [s \in Slots |-> 0]
    /\ pvApi' = [s \in Slots |-> <<>>]
    /\ pvSel' = [s \in Slots |-> <<>>]
    /\ pvI' = [s \in Slots |-> 0]
    /\ pvDl' = [s \in Slots |-> <<>>]
    /\ pvDone' = [s \in Slots |-> <<>>]

\* A direct call of the provider.
SearchAndDownloadVideos(maxVideos) ==
    /\ pvPc[1] = "idle"
    /\ svPc = "idle"
    /\ PvEnter(1 :> maxVideos)
    /\ UNCHANGED notPvVars

\* searchVideos resolves with `videos`: none found returns [], else the
\* selection is made and the first batch of downloads is started.
SearchResponse(s, videos) ==
    /\ pvPc[s] = "searching"
    /\ pvApi' = [pvApi EXCEPT ![s] = videos]
    /\ LET sel == IF videos = <<>> THEN <<>>
                  ELSE QualityVideos(videos, pvMax[s]) IN
       /\ pvSel' = [pvSel EXCEPT ![s] = sel]
       /\ pvDl' = [pvDl EXCEPT ![s] =
             StartBatch([pos \in 1..Len(sel) |->
                            [st |-> "pending", stamp |-> 0, runs |-> 0]],
                        sel, 0)]
       /\ pvPc' = [pvPc EXCEPT ![s] =
             IF sel = <<>> THEN "fulfilled" ELSE "downloading"]
    /\ UNCHANGED <<pvMax, pvI, pvDone>>
    /\ UNCHANGED notPvVars

\* searchVideos throws: the call rethrows.
SearchFail(s) ==
    /\ pvPc[s] = "searching"
    /\ pvPc' = [pvPc EXCEPT ![s] = "rejected"]
    /\ UNCHANGED <<pvMax, pvApi, pvSel, pvI, pvDl, pvDone>>
    /\ UNCHANGED notPvVars

\* Mutant: the results of a batch are cut at its first failed download.
RECURSIVE BatchResultsUntilFailure(_, _, _, _)
BatchResultsUntilFailure(sel, dl, pos, last) ==
    IF pos > last \/ dl[pos].st # "ok" THEN <<>>
    ELSE <<DownloadedVideo(sel[pos], dl[pos].stamp)>>
         \o BatchResultsUntilFailure(sel, dl, pos + 1, last)

\* The successful downloads of the batch at loop index i, in batch order.
RECURSIVE BatchResults(_, _, _, _)
BatchResults(sel, dl, pos, last) ==
    IF pos > last THEN <<>>
    ELSE (IF dl[pos].st = "ok" THEN <<DownloadedVideo(sel[pos], dl[pos].stamp)>>
                               ELSE <<>>)
         \o BatchResults(sel, dl, pos + 1, last)

\* downloadVideoWithRetry of the candidate at position pos has settled, the
\* download states now being dl.  When it is the last of its batch,
\* Promise.allSettled resolves: the results of the batch are pushed in batch
\* order and the next batch is started, or the call returns.
Settled(s, dl) ==
    LET batch == Batch(pvSel[s], pvI[s])
        settled == \A q \in batch : dl[q].st # "running"
        next == pvI[s] + MaxConcurrentDownloads
    IN
    IF ~settled
      THEN /\ pvDl' = [pvDl EXCEPT ![s] = dl]
           /\ UNCHANGED <<pvPc, pvI, pvDone>>
      ELSE /\ pvDone' = [pvDone EXCEPT ![s] =
                 @ \o BatchResults(pvSel[s], dl, pvI[s] + 1,
                                   Min(next, Len(pvSel[s])))]
           /\ pvI' = [pvI EXCEPT ![s] = next]
           /\ IF next < Len(pvSel[s])
                THEN /\ pvDl' = [pvDl EXCEPT ![s] = StartBatch(dl, pvSel[s], next)]
                     /\ UNCHANGED pvPc
                ELSE /\ pvDl' = [pvDl EXCEPT ![s] = dl]
                     /\ pvPc' = [pvPc EXCEPT ![s] = "fulfilled"]

\* The run of downloadVideo for the candidate at position pos resolves, with
\* an asset (ok) or with null (no link, a failed transport or an empty file,
\* all caught inside downloadVideo): `return await this.downloadVideo(video)`
\* makes downloadVideoWithRetry settle with that value at once.
DownloadSettle(s, pos, ok) ==
    /\ pvPc[s] = "downloading"
    /\ pos \in Batch(pvSel[s], pvI[s])
    /\ pvDl[s][pos].st = "running"
    /\ pvSel[s][pos].id \notin MalformedIds
    /\ Settled(s, [pvDl[s] EXCEPT ![pos].st = IF ok THEN "ok" ELSE "failed"])
    /\ UNCHANGED <<pvMax, pvApi, pvSel>>
    /\ UNCHANGED notPvVars

\* The run of downloadVideo rejects, which only the link selection ahead of
\* its try block can cause (a candidate without video_files): the catch of
\* downloadVideoWithRetry returns null on the last attempt, else waits
\* 1000 ms x attempt and runs downloadVideo again.
DownloadVideoThrows(s, pos) ==
    /\ pvPc[s] = "downloading"
    /\ pos \in Batch(pvSel[s], pvI[s])
    /\ pvDl[s][pos].st = "running"
    /\ pvSel[s][pos].id \in MalformedIds
    /\ IF pvDl[s][pos].runs = RetryAttempts
         THEN Settled(s, [pvDl[s] EXCEPT ![pos].st = "failed"])
         ELSE /\ pvDl' = [pvDl EXCEPT ![s][pos].runs = @ + 1]
              /\ UNCHANGED <<pvPc, pvI, pvDone>>
    /\ UNCHANGED <<pvMax, pvApi, pvSel>>
    /\ UNCHANGED notPvVars

\* The positions a search response of the model can have.
Positions == 1..Len(ScenarioA)

\* The steps of a provider call in progress, for the search responses `lists`.
PvStep(lists) ==
    \/ \E s \in Slots, videos \in lists : SearchResponse(s, videos)
    \/ \E s \in Slots : SearchFail(s)
    \/ \E s \in Slots, pos \in Positions, ok \in BOOLEAN : DownloadSettle(s, pos, ok)

NextPv ==
    \/ \E maxVideos \in (0..MaxVideosIn) \cup {DefaultMaxVideos} :
          SearchAndDownloadVideos(maxVideos)
    \/ PvStep(ApiLists(Candidates, MaxResults) \cup {ScenarioA})
    \/ \E s \in Slots, pos \in Positions : DownloadVideoThrows(s, pos)

\* The position of v in seq.
PosIn(seq, v) == CHOOSE i \in 1..Len(seq) : seq[i] = v

\* C10: searchAndDownloadVideos selects exactly the candidates whose duration
\* is within [3, 60] s, at most maxVideos of them and then the best ones,
\* ordered by descending width x height + duration x 100, candidates of equal
\* score in their order in the search response; of the durations
\* {2,5,8,15,40,65,20,3,50,12} the 2 s and 65 s candidates are dropped.
C10_SelectionRankedInRange ==
    \A s \in Slots : pvPc[s] \in {"downloading", "fulfilled"} =>
        LET api == pvApi[s]
            sel == pvSel[s]
            inRange == {i \in 1..Len(api) :
                           api[i].duration >= 3 /\ api[i].duration <= 60}
            sc(i) == api[i].width * api[i].height + api[i].duration * 100
            Better(i, j) == sc(i) > sc(j) \/ (sc(i) = sc(j) /\ i < j)
            chosen == {PosIn(api, sel[k]) : k \in 1..Len(sel)}
        IN
        /\ \A k \in 1..Len(sel) : \E i \in inRange : api[i] = sel[k]
        /\ \A k, l \in 1..Len(sel) : k # l => sel[k] # sel[l]
        /\ Len(sel) = Min(pvMax[s], Cardinality(inRange))
        /\ \A k, l \in 1..Len(sel) :
              k < l => Better(PosIn(api, sel[k]), PosIn(api, sel[l]))
        /\ \A j \in inRange \ chosen : \A i \in chosen : Better(i, j)
        /\ (api = ScenarioA /\ pvMax[s] = 10) =>
              [k \in 1..Len(sel) |-> sel[k].duration] = <<50, 40, 20, 15, 12, 8, 5, 3>>

\* The scenario's selection has been made and its downloads have settled.
C10_Witness ==
    /\ pvPc[1] = "fulfilled"
    /\ pvApi[1] = ScenarioA
    /\ pvMax[1] = 10
    /\ Len(pvSel[1]) = 8

\* C11: within one searchAndDownloadVideos call at most 5 downloads are in
\* flight at any time, and a download of a later batch (positions 6..10,
\* 11..15, ...) has started only when every download of the earlier batches
\* has settled.
C11_BatchesOfFiveInSequence ==
    \A s \in Slots : pvPc[s] \in {"downloading", "fulfilled"} =>
        LET dl == pvDl[s]
            batchOf(pos) == (pos - 1) \div 5
        IN
        /\ Cardinality({pos \in DOMAIN dl : dl[pos].st = "running"}) <= 5
        /\ \A pos, q \in DOMAIN dl :
              (batchOf(q) < batchOf(pos) /\ dl[pos].st # "pending")
                  => dl[q].st \in {"ok", "failed"}

\* The second batch of the scenario is in flight, the first batch having
\* settled with a failure in it.
C11_Witness ==
    /\ pvPc[1] = "downloading"
    /\ Len(pvSel[1]) = 8
    /\ \A pos \in 6..8 : pvDl[1][pos].st = "running"
    /\ \E q \in 1..5 : pvDl[1][q].st = "failed"

\* C12: a failed download aborts neither its batch nor the call:
\* searchAndDownloadVideos returns exactly the assets of the selected
\* candidates whose download succeeded, in selection order, every batch
\* having been processed.
C12_PartialSuccessInOrder ==
    \A s \in Slots : (pvPc[s] = "fulfilled" /\ pvApi[s] # <<>>) =>
        LET dl == pvDl[s]
            sel == pvSel[s]
            done == pvDone[s]
            okPos == {pos \in DOMAIN dl : dl[pos].st = "ok"}
            nth(k) == CHOOSE p \in okPos : Cardinality({q \in okPos : q < p}) = k - 1
        IN
        /\ DOMAIN dl = 1..Len(sel)
        /\ \A pos \in DOMAIN dl : dl[pos].st \in {"ok", "failed"}
        /\ Len(done) = Cardinality(okPos)
        /\ \A k \in 1..Len(done) :
              /\ done[k].id = sel[nth(k)].id
              /\ done[k].width = sel[nth(k)].width
              /\ done[k].height = sel[nth(k)].height
              /\ done[k].duration = sel[nth(k)].duration
              /\ done[k].localPath[1] = sel[nth(k)].id

\* The scenario's call has returned: a download failed in the first batch
\* before a later one of that batch succeeded, and the second batch delivered.
C12_Witness ==
    /\ pvPc[1] = "fulfilled"
    /\ Len(pvSel[1]) = 8
    /\ pvDl[1][2].st = "failed"
    /\ pvDl[1][4].st = "ok"
    /\ pvDl[1][6].st = "failed"
    /\ pvDl[1][7].st = "ok"
    /\ Len(pvDone[1]) = 5

\* C13: downloadVideoWithRetry runs downloadVideo again whenever a run
\* produced no asset, up to 3 runs: a candidate is reported as failed only
\* after its third failed run.
C13_FailedOnlyAfterThreeRuns ==
    \A s \in Slots : \A pos \in DOMAIN pvDl[s] :
        pvDl[s][pos].st = "failed" => pvDl[s][pos].runs = 3

----------------------------------------------------------------------------
(* VideoAI.scrapeVideos *)

\* Mutant: of two clips with the same id the later one is kept.
UniqueVideosKeepLast(all) ==
    LET keep(i) == \A j \in (i + 1)..Len(all) : all[j].id # all[i].id
        F[i \in 1..(Len(all) + 1)] ==
            IF i > Len(all) THEN <<>>
            ELSE (IF keep(i) THEN <<all[i]>> ELSE <<>>) \o F[i + 1]
    IN F[1]

\* allVideos.filter((video, index, arr) =>
\*     arr.findIndex((v) => v.id === video.id) === index)
UniqueVideos(all) ==
    LET keep(i) == \A j \in 1..(i - 1) : all[j].id # all[i].id
        F[i \in 1..(Len(all) + 1)] ==
            IF i > Len(all) THEN <<>>
            ELSE (IF keep(i) THEN <<all[i]>> ELSE <<>>) \o F[i + 1]
    IN F[1]

\* The compute of scrapeVideos on the settled searches: merge, deduplicate,
\* sort by quality, take the top targetCount.
MergedVideos ==
    (IF pvPc[1] = "fulfilled" THEN pvDone[1] ELSE <<>>)
    \o (IF pvPc[2] = "fulfilled" THEN pvDone[2] ELSE <<>>)

\* What scrapeVideos does with `videos`, computed or cached: none makes it
\* throw, else each is pushed to the assets and the paths are returned.
ScrapeReturn(videos) ==
    /\ svResult' = videos
    /\ IF videos = <<>>
         THEN svPc' = "thrown" /\ assets' = assets
         ELSE /\ svPc' = "returned"
              /\ assets' = assets \o
                    [k \in 1..Len(videos) |->
                        [path |-> videos[k].localPath, type |-> "video"]]

\* scrapeVideos(query, targetCount) is called: the cache lookup; on a hit the
\* cached list is used at once, on a miss both searches are started.
ScrapeVideosCall(target) ==
    /\ svPc # "computing"
    /\ \A s \in Slots : pvPc[s] \notin {"searching", "downloading"}
    /\ svCalls < MaxScrapes
    /\ svCalls' = svCalls + 1
    /\ svTarget' = target
    /\ IF CacheHit("videos", VideosTtlMs)
         THEN /\ svHit' = TRUE
              /\ ScrapeReturn(cache["videos"].data)
              /\ UNCHANGED pvVars
         ELSE /\ svHit' = FALSE
              /\ svPc' = "computing"
              /\ PvEnter(1 :> PrimaryMaxVideos @@ 2 :> SecondaryMaxVideos)
              /\ UNCHANGED <<assets, svResult>>
    /\ UNCHANGED <<svMerged, cacheVars, gvPc, gvTask, gvClips, gvFiles, gvEmpty, gvErr>>
    /\ UNCHANGED notSvVars

\* Promise.allSettled of the two searches has resolved: the result is
\* computed, stored in the cache by withCache, and used.
ScrapeFinish ==
    /\ svPc = "computing"
    /\ \A s \in Slots : pvPc[s] \in {"fulfilled", "rejected"}
    /\ LET videos == Slice(SortByScore(UniqueVideos(MergedVideos), ScrapeWeight),
                           svTarget) IN
       /\ cache' = CacheSet("videos", videos)
       /\ ScrapeReturn(videos)
    /\ svMerged' = MergedVideos
    /\ PvLeave
    /\ UNCHANGED <<svTarget, svHit, svCalls>>
    /\ UNCHANGED <<now, callPc, callKey, callResult, callsMade, computeCount,
                   hitCount, failCount, searchRequests, downloadsDone>>
    /\ UNCHANGED <<gvPc, gvTask, gvClips, gvFiles, gvEmpty, gvErr>>
    /\ UNCHANGED notSvVars

\* Search results of the two searches of scrapeVideos: lists of two acceptable
\* candidates, and a response holding only a candidate that is too long.
ScrapeCandidates == { Candidate(1, 20, 20, 3), Candidate(2, 10, 10, 6) }

ScrapeResponses ==
    ApiLists(ScrapeCandidates, MaxScrapeResults) \cup {<<Candidate(5, 40, 40, 61)>>}

\* Date.now() advances by the TTL of the video cache.
ScrapeTick ==
    /\ now < MaxScrapeTicks * VideosTtlMs
    /\ now' = now + VideosTtlMs
    /\ UNCHANGED <<cache, callPc, callKey, callResult, callsMade, computeCount,
                   hitCount, failCount, searchRequests, downloadsDone>>
    /\ UNCHANGED notCacheVars

NextSv ==
    \/ \E target \in 1..MaxTarget : ScrapeVideosCall(target)
    \/ ScrapeFinish
    \/ PvStep(ScrapeResponses)
    \/ ScrapeTick

\* The first clip of seq with the given id.
FirstWithId(seq, id) ==
    seq[CHOOSE i \in 1..Len(seq) :
            seq[i].id = id /\ \A j \in 1..(i - 1) : seq[j].id # id]

\* `list` has no two clips of the same id, each clip is the first of its id
\* in the merge of the two searches, and each duration is within [3, 60] s.
DedupedInRange(list, merged) ==
    \A k \in 1..Len(list) :
        /\ list[k].duration >= 3 /\ list[k].duration <= 60
        /\ \A l \in 1..Len(list) : l # k => list[l].id # list[k].id
        /\ \E i \in 1..Len(merged) : merged[i].id = list[k].id
        /\ list[k] = FirstWithId(merged, list[k].id)

InFlight ==
    {d \in Slots \X Positions :
        d[2] \in DOMAIN pvDl[d[1]] /\ pvDl[d[1]][d[2]].st = "running"}

\* `path.join(this.tmpDir, filename)` of the download d.
LocalPathOf(d) == <<pvSel[d[1]][d[2]].id, pvDl[d[1]][d[2]].stamp>>

\* C32: no two downloads in flight at the same time write to the same
\* destination path, also when the exact and the broadened search select the
\* same candidate within the same millisecond.
C32_DistinctDestinations ==
    \A d, e \in InFlight : d # e => LocalPathOf(d) # LocalPathOf(e)

\* The clip files the latest compute of scrapeVideos left on disk: one per
\* successful download (neither the provider nor scrapeVideos deletes any).
ClipFilesWritten == {svMerged[k].localPath : k \in 1..Len(svMerged)}

\* C33: once scrapeVideos has returned, every clip file written during the
\* acquisition is recorded in the asset list (none was deleted): no file of a
\* clip dropped as a duplicate id or cut off by the targetCount slice is
\* orphaned.
C33_NoOrphanedClipFile ==
    svPc = "returned" => ClipFilesWritten \subseteq AssetPaths

----------------------------------------------------------------------------
(* Link selection: PexelsVideoProvider.getBestQualityVideoUrl *)

\* The quality and file_type values of the source files of a candidate, and
\* their dimensions (0 stands for null, which `|| 0` turns into 0).
Qualities == {"hd", "sd", "preview", "hls", "uhd"}
FileTypes == {"video/mp4", "application/x-mpegURL"}
Dimensions == { <<0, 0>>, <<640, 360>>, <<1280, 720>> }

\* Every size for the MP4 files; one size for the files of the other type,
\* which the filter drops whatever their size.
FileKinds ==
    { [quality |-> q, file_type |-> "video/mp4", width |-> d[1], height |-> d[2]] :
        q \in Qualities, d \in Dimensions }
    \cup
    { [quality |-> q, file_type |-> t, width |-> 1280, height |-> 720] :
        q \in Qualities, t \in FileTypes }

\* The video_files lists of up to n files; the link of a file is its place.
VideoFiles(n) ==
    UNION { { [k \in 1..m |->
                 [quality |-> kinds[k].quality, file_type |-> kinds[k].file_type,
                  width |-> kinds[k].width, height |-> kinds[k].height,
                  link |-> k]] : kinds \in [1..m -> FileKinds] } : m \in 0..n }

NoLink == 0

\* `file.file_type === 'video/mp4' && file.quality !== 'hls'`
Qualifies(file) == file.file_type = "video/mp4" /\ file.quality # "hls"

\* `qualityOrder[quality] || 0`
QualityOrder(quality) ==
    CASE quality = "hd" -> 3
      [] quality = "sd" -> 2
      [] quality = "preview" -> 1
      [] OTHER -> 0

\* `(width || 0) * (height || 0)`
Pixels(file) == file.width * file.height

\* Mutant: files of one tier are not compared by their pixels.
NotAfterByTierOnly(a, b) == QualityOrder(a.quality) >= QualityOrder(b.quality)

\* The comparator puts a ahead of b, or leaves them in their order.
NotAfter(a, b) ==
    \/ QualityOrder(a.quality) > QualityOrder(b.quality)
    \/ /\ QualityOrder(a.quality) = QualityOrder(b.quality)
       /\ Pixels(a) >= Pixels(b)

\* Array.prototype.sort is stable: insertion behind the files that stay ahead.
InsertByQuality(sorted, x) ==
    LET p == Cardinality({i \in 1..Len(sorted) : NotAfter(sorted[i], x)}) IN
    SubSeq(sorted, 1, p) \o <<x>> \o SubSeq(sorted, p + 1, Len(sorted))

RECURSIVE SortByQuality(_)
SortByQuality(seq) ==
    IF seq = <<>> THEN <<>>
    ELSE InsertByQuality(SortByQuality(SubSeq(seq, 1, Len(seq) - 1)),
                         seq[Len(seq)])

\* `videoFiles.length > 0 ? videoFiles[0].link : null`
GetBestQualityVideoUrl(files) ==
    LET videoFiles == SortByQuality(SelectSeq(files, Qualifies)) IN
    IF Len(videoFiles) > 0 THEN videoFiles[1].link ELSE NoLink

\* downloadVideo(video) is called for a candidate: the link is selected;
\* without a link the call returns null at once, which the batch reports as
\* a failed download, else downloadFile is called.
DownloadVideoCall(files) ==
    /\ lkPc = "idle"
    /\ lkFiles' = files
    /\ lkUrl' = GetBestQualityVideoUrl(files)
    /\ IF lkUrl' = NoLink
         THEN lkPc' = "done" /\ lkTransfers' = 0 /\ lkReport' = "failed"
         ELSE lkPc' = "transferring" /\ lkTransfers' = 1 /\ lkReport' = "none"
    /\ UNCHANGED notLkVars

\* downloadFile and the size check settle: the asset, or null from the catch.
DownloadVideoSettle(ok) ==
    /\ lkPc = "transferring"
    /\ lkPc' = "done"
    /\ lkReport' = IF ok THEN "downloaded" ELSE "failed"
    /\ UNCHANGED <<lkFiles, lkUrl, lkTransfers>>
    /\ UNCHANGED notLkVars

NextLk ==
    \/ \E files \in VideoFiles(MaxFiles) : DownloadVideoCall(files)
    \/ \E ok \in BOOLEAN : DownloadVideoSettle(ok)

\* The places of the progressive MP4 files of the current candidate.
Progressive ==
    { k \in 1..Len(lkFiles) :
        lkFiles[k].file_type = "video/mp4" /\ lkFiles[k].quality # "hls" }

\* C20: the selected link is that of a progressive MP4 file that no other
\* such file of the candidate beats by tier (hd > sd > preview > other) or, in
\* the same tier, by width x height; without such a file the result is null,
\* no transfer is made and the candidate is reported as failed.
C20_BestProgressiveLink ==
    lkPc # "idle" =>
        IF Progressive = {}
          THEN lkUrl = NoLink /\ lkTransfers = 0 /\ lkReport = "failed"
          ELSE /\ lkUrl \in Progressive
               /\ \A j \in Progressive :
                     \/ QualityOrder(lkFiles[lkUrl].quality)
                           > QualityOrder(lkFiles[j].quality)
                     \/ /\ QualityOrder(lkFiles[lkUrl].quality)
                              = QualityOrder(lkFiles[j].quality)
                        /\ Pixels(lkFiles[lkUrl]) >= Pixels(lkFiles[j])

\* A candidate whose second file is chosen over the first of the same tier
\* for its larger area.
C20_Witness ==
    /\ lkPc = "transferring"
    /\ Len(lkFiles) = 2
    /\ Progressive = {1, 2}
    /\ lkFiles[1].quality = lkFiles[2].quality
    /\ Pixels(lkFiles[2]) > Pixels(lkFiles[1])
    /\ lkUrl = 2

----------------------------------------------------------------------------
(* AI-driven acquisition: VideoAI.scrapeVideosWithAIQueries *)

TotalVideosNeeded == 12
MinUniqueVideos == 8
DefaultTargetCount == 10

OriginalQuery == "videos"

Query(q, p) == [query |-> q, priority |-> p]

\* The fallback queries of generateVideoQueries: the topic itself, "<topic>
\* facts", "<topic> nature", "<topic> closeup" and "abstract motion".
FallbackQueries ==
    << Query("videos", 10), Query("videos_f1", 8), Query("videos_f2", 7),
       Query("videos_f3", 6), Query("videos_f4", 5) >>

\* Query lists the language model may return, as returned (any order).
GeneratedQueries ==
    { << Query("videos_ai1", 10) >>,
      << Query("videos_ai2", 5), Query("videos_ai1", 10) >> }

\* result.sort((a, b) => b.priority - a.priority): stable, descending.
InsertByPriority(sorted, x) ==
    LET p == Cardinality({i \in 1..Len(sorted) :
                             sorted[i].priority >= x.priority}) IN
    SubSeq(sorted, 1, p) \o <<x>> \o SubSeq(sorted, p + 1, Len(sorted))

RECURSIVE SortByPriority(_)
SortByPriority(seq) ==
    IF seq = <<>> THEN <<>>
    ELSE InsertByPriority(SortByPriority(SubSeq(seq, 1, Len(seq) - 1)),
                          seq[Len(seq)])

RECURSIVE TotalPriority(_)
TotalPriority(queries) ==
    IF queries = <<>> THEN 0
    ELSE Head(queries).priority + TotalPriority(Tail(queries))

\* Math.max(1, Math.round((priority / totalPriority) * totalVideosNeeded))
VideosForQuery(priority, total) ==
    LET rounded == (2 * priority * TotalVideosNeeded + total) \div (2 * total) IN
    IF rounded < 1 THEN 1 ELSE rounded

\* The sizes of the lists the two searches of one scrapeVideos compute may
\* merge to (at most 6 + 4 clips), and those lists: clips of distinct ids,
\* downloaded at the time of the compute. The fallback texts derived from the
\* topic find nothing.  The two generated search texts are related: all but
\* the first candidate of the one are also found by the other.
FoundSizes(key) ==
    IF key \in {"videos", "videos_ai1", "videos_ai2"} THEN {0, 2, 8} ELSE {0}

KeyBase ==
    [videos |-> 0, videos_ai1 |-> 10, videos_ai2 |-> 11, videos_f1 |-> 30,
     videos_f2 |-> 40, videos_f3 |-> 50, videos_f4 |-> 60]

FoundClips(key, n) ==
    [j \in 1..n |-> DownloadedVideo(Candidate(KeyBase[key] + j, 20, 20, 10), now)]

AnyFoundSize == UNION { FoundSizes(key) : key \in QueryKeys }

\* `videos.map((video) => video.localPath)`
Paths(videos) == [k \in 1..Len(videos) |-> videos[k].localPath]

PathsOf(seq) == { seq[k] : k \in 1..Len(seq) }

\* One scrapeVideos(query, targetCount) call whose searches, if they run, find
\* `found` clips: the cached list on a hit whatever targetCount is, else the first
\* targetCount clips, which withCache stores; the call throws on an empty list.
ScrapeVideosOf(key, target, found) ==
    LET hit == CacheHit(key, VideosTtlMs)
        videos == IF hit THEN cache[key].data ELSE Slice(FoundClips(key, found), target) IN
    [videos |-> videos, throws |-> videos = <<>>, stored |-> ~hit]

\* The effect of that call on the cache and on this.assets.
ScrapeVideosEffect(key, r) ==
    /\ cache' = IF r.stored THEN CacheSet(key, r.videos) ELSE cache
    /\ assets' = assets \o
          [k \in 1..Len(r.videos) |->
              [path |-> r.videos[k].localPath, type |-> "video"]]

\* Step 4: a path is pushed unless videoSet has it.
RECURSIVE AppendNew(_, _)
AppendNew(all, videos) ==
    IF videos = <<>> THEN all
    ELSE AppendNew(IF Head(videos) \in PathsOf(all) THEN all
                   ELSE Append(all, Head(videos)),
                   Tail(videos))

RECURSIVE CombineResults(_)
CombineResults(results) ==
    IF results = <<>> THEN <<>>
    ELSE AppendNew(CombineResults(SubSeq(results, 1, Len(results) - 1)),
                   results[Len(results)].videos)

\* Step 5: a supplemental path is pushed unless videoSet has it; videoSet is
\* not extended.
Supplemented(all, videos) ==
    all \o SelectSeq(videos, LAMBDA v : v \notin PathsOf(all))

NoSupplement ==
    [made |-> FALSE, requested |-> 0, outcome |-> "none", returned |-> <<>>]

aqCacheRest ==
    <<callPc, callKey, callResult, callsMade, computeCount, hitCount,
      failCount, searchRequests, downloadsDone>>

aqAssetRest == <<gvPc, gvTask, gvClips, gvFiles, gvEmpty, gvErr>>

\* scrapeVideosWithAIQueries(originalQuery, script) is called: step 1,
\* generateVideoQueries, up to the return of withCache. On a hit it returns
\* the cached array; on a miss the array the model generated, which it has
\* stored as it came; when the generation fails, the catch block returns the
\* fallback list, and steps 2 and 3 start the searches.
ScrapeVideosWithAIQueriesCall(generated, genFails) ==
    /\ aqPc \in {"idle", "returned", "thrown"}
    /\ aqRuns < MaxAqRuns
    /\ aqRuns' = aqRuns + 1
    /\ IF CacheHit("video_queries", QueriesTtlMs)
         THEN /\ cache' = cache
              /\ aqQueries' = cache["video_queries"].data
              /\ aqPc' = "queries"
              /\ aqRes' = <<>>
         ELSE IF genFails
                THEN /\ cache' = cache
                     /\ aqQueries' = FallbackQueries
                     /\ aqPc' = "scraping"
                     /\ aqRes' = [k \in 1..Len(FallbackQueries) |->
                                     [st |-> "pending", videos |-> <<>>]]
                ELSE /\ cache' = CacheSet("video_queries", generated)
                     /\ aqQueries' = generated
                     /\ aqPc' = "queries"
                     /\ aqRes' = <<>>
    /\ aqM' = -1
    /\ aqSupp' = NoSupplement
    /\ aqAll' = <<>>
    /\ UNCHANGED <<now, assets, aqCacheRest, aqAssetRest>>
    /\ UNCHANGED notAqVars

\* generateVideoQueries continues after withCache: `result.sort(...)` orders
\* the array it was given, which is the array the cache entry holds, and
\* returns it; steps 2 and 3 start the searches.
AqQueriesSorted ==
    /\ aqPc = "queries"
    /\ LET sorted == SortByPriority(aqQueries) IN
       /\ cache' = [cache EXCEPT !["video_queries"].data = sorted]
       /\ aqQueries' = sorted
       /\ aqRes' = [k \in 1..Len(sorted) |-> [st |-> "pending", videos |-> <<>>]]
    /\ aqPc' = "scraping"
    /\ UNCHANGED <<now, assets, aqM, aqSupp, aqAll, aqRuns, aqCacheRest, aqAssetRest>>
    /\ UNCHANGED notAqVars

\* The scrapeVideos call of query k settles (a throw is caught and counts as
\* no videos). When it is the last one, Promise.all resolves: step 4, and the
\* test of step 5, which returns or starts the supplemental search.
AqQueryDone(k, found) ==
    /\ aqPc = "scraping"
    /\ k \in DOMAIN aqRes
    /\ aqRes[k].st = "pending"
    /\ found \in FoundSizes(aqQueries[k].query)
    /\ LET r == ScrapeVideosOf(aqQueries[k].query,
                               VideosForQuery(aqQueries[k].priority,
                                              TotalPriority(aqQueries)),
                               found)
           res == [aqRes EXCEPT ![k] = [st |-> "done", videos |-> Paths(r.videos)]]
           all == CombineResults(res) IN
       /\ ScrapeVideosEffect(aqQueries[k].query, r)
       /\ aqRes' = res
       /\ IF \E j \in DOMAIN res : res[j].st = "pending"
            THEN UNCHANGED <<aqPc, aqM, aqSupp, aqAll>>
            ELSE /\ aqM' = Len(all)
                 /\ aqAll' = all
                 /\ IF Len(all) < MinUniqueVideos
                      THEN /\ aqPc' = "supplement"
                           /\ aqSupp' = [made |-> TRUE,
                                         requested |-> MinUniqueVideos - Len(all),
                                         outcome |-> "pending",
                                         returned |-> <<>>]
                      ELSE /\ aqPc' = "returned"
                           /\ aqSupp' = aqSupp
    /\ UNCHANGED <<now, aqQueries, aqRuns, aqCacheRest, aqAssetRest>>
    /\ UNCHANGED notAqVars

\* The supplemental scrapeVideos(originalQuery, 8 - allVideos.length) settles:
\* its paths are appended and the call returns, or its throw reaches the outer
\* catch, which starts scrapeVideos(originalQuery).
AqSupplementDone(found) ==
    /\ aqPc = "supplement"
    /\ found \in FoundSizes(OriginalQuery)
    /\ LET r == ScrapeVideosOf(OriginalQuery, aqSupp.requested, found) IN
       /\ ScrapeVideosEffect(OriginalQuery, r)
       /\ IF r.throws
            THEN /\ aqPc' = "fallback"
                 /\ aqSupp' = [aqSupp EXCEPT !.outcome = "threw"]
                 /\ aqAll' = aqAll
            ELSE /\ aqPc' = "returned"
                 /\ aqSupp' = [aqSupp EXCEPT !.outcome = "ok",
                                             !.returned = Paths(r.videos)]
                 /\ aqAll' = Supplemented(aqAll, Paths(r.videos))
    /\ UNCHANGED <<now, aqQueries, aqRes, aqM, aqRuns, aqCacheRest, aqAssetRest>>
    /\ UNCHANGED notAqVars

\* `return await this.scrapeVideos(originalQuery)` of the outer catch settles:
\* its list is the result, or its throw is the throw of the call.
AqFallbackDone(found) ==
    /\ aqPc = "fallback"
    /\ found \in FoundSizes(OriginalQuery)
    /\ LET r == ScrapeVideosOf(OriginalQuery, DefaultTargetCount, found) IN
       /\ ScrapeVideosEffect(OriginalQuery, r)
       /\ IF r.throws
            THEN aqPc' = "thrown" /\ aqAll' = <<>>
            ELSE aqPc' = "returned" /\ aqAll' = Paths(r.videos)
    /\ UNCHANGED <<now, aqQueries, aqRes, aqM, aqSupp, aqRuns, aqCacheRest,
                   aqAssetRest>>
    /\ UNCHANGED notAqVars

\* Date.now() advances by the TTL of the query cache.
AqTick ==
    /\ now < MaxAqTicks * QueriesTtlMs
    /\ now' = now + QueriesTtlMs
    /\ UNCHANGED <<cache, aqCacheRest>>
    /\ UNCHANGED notCacheVars

NextAq ==
    \/ \E generated \in GeneratedQueries, genFails \in BOOLEAN :
          ScrapeVideosWithAIQueriesCall(generated, genFails)
    \/ AqQueriesSorted
    \/ \E k \in 1..Len(FallbackQueries), found \in AnyFoundSize :
          AqQueryDone(k, found)
    \/ \E found \in AnyFoundSize : AqSupplementDone(found)
    \/ \E found \in AnyFoundSize : AqFallbackDone(found)
    \/ AqTick

\* C18: a supplemental search is made exactly when fewer than 8 clips were
\* collected from the AI queries; it requests 8 - m clips and the call then
\* returns at most 8 - m clips more than the m it had.
C18_SupplementAddsAtMostMissing ==
    /\ aqSupp.made => aqM < 8 /\ aqSupp.requested = 8 - aqM
    /\ (aqM >= 0 /\ aqM < 8) => aqSupp.made
    /\ (aqPc = "returned" /\ aqSupp.outcome = "ok") =>
          Len(aqAll) - aqM <= 8 - aqM

\* C26: the value of a cache entry that is still served does not change:
\* as long as a lookup of the key would hit, every step leaves the entry as
\* it was stored, element order included.
C26_CachedValueNeverMutated ==
    [][\A k \in AllCacheKeys :
          (cache[k] # NoEntry /\ CacheHit(k, TtlOf(k))) => cache'[k] = cache[k]]_vars

\* C36: the list scrapeVideosWithAIQueries returns has no two clips
\* downloaded from the same candidate id.
C36_NoDuplicateCandidates ==
    aqPc = "returned" =>
        \A i, j \in 1..Len(aqAll) : i # j => aqAll[i][1] # aqAll[j][1]

\* The paths obtained by the searches of the current call that succeeded.
AqObtained ==
    UNION { PathsOf(aqRes[k].videos) : k \in DOMAIN aqRes }
       \cup PathsOf(aqSupp.returned)

\* C19: a call in which some search succeeded does not fail, and returns
\* every clip its successful searches obtained.
C19_FailedSearchesAreAbsorbed ==
    (aqPc \in {"returned", "thrown"} /\ AqObtained # {}) =>
        aqPc = "returned" /\ AqObtained \subseteq PathsOf(aqAll)

----------------------------------------------------------------------------
(* One instance reused: scrapeVideos, cleanup() and clearCache() in sequence *)

\* scrapeVideos(originalQuery, targetCount) runs to its end on an instance
\* whose earlier calls have ended: on a miss the searches download `found`
\* clips, each to a file of its own, and withCache stores the first
\* targetCount of them; on a hit the cached list is used as it is.  Every
\* clip of the list is pushed to this.assets and the paths are returned; an
\* empty list makes the call throw.  The run the call belongs to ends with it
\* (gvPc), so that the owner may call cleanup().
ScrapeVideosRun(target, found) ==
    /\ svPc # "computing"
    /\ svCalls < MaxRuns
    /\ found \in FoundSizes(OriginalQuery)
    /\ LET r == ScrapeVideosOf(OriginalQuery, target, found) IN
       /\ ScrapeVideosEffect(OriginalQuery, r)
       /\ gvFiles' = IF r.stored
                       THEN gvFiles \cup PathsOf(Paths(FoundClips(OriginalQuery, found)))
                       ELSE gvFiles
       /\ svHit' = ~r.stored
       /\ svResult' = r.videos
       /\ svPc' = IF r.throws THEN "thrown" ELSE "returned"
       /\ gvPc' = IF r.throws THEN "thrown" ELSE "returned"
    /\ svTarget' = target
    /\ svCalls' = svCalls + 1
    /\ UNCHANGED <<now, aqCacheRest, svMerged, gvTask, gvClips, gvEmpty, gvErr>>
    /\ UNCHANGED <<pvVars, notSvVars>>

\* clearCache(): `this.cache.clear()`
ClearCache ==
    /\ svPc # "computing"
    /\ \E k \in AllCacheKeys : cache[k] # NoEntry
    /\ cache' = [k \in AllCacheKeys |-> NoEntry]
    /\ UNCHANGED <<now, aqCacheRest>>
    /\ UNCHANGED notCacheVars

\* Date.now() advances by the ttl of the video cache.
RunTick ==
    /\ now < MaxRunTicks * VideosTtlMs
    /\ now' = now + VideosTtlMs
    /\ UNCHANGED <<cache, aqCacheRest>>
    /\ UNCHANGED notCacheVars

\* The clip files whose unlink may fail: those of the two best clips, of
\* any compute.
StuckClipPaths ==
    {<<KeyBase[OriginalQuery] + j, n * VideosTtlMs>> :
        j \in 1..2, n \in 0..MaxRunTicks}

NextInstance ==
    \/ \E target \in 1..MaxRunTarget, found \in AnyFoundSize :
          ScrapeVideosRun(target, found)
    \/ \E stuck \in SUBSET StuckClipPaths : CleanupCall(stuck)
    \/ ClearCache
    \/ RunTick

\* C34: every clip path held in a cache entry that has not expired refers to
\* a file that still exists, whatever scrapeVideos, cleanup() and
\* clearCache() calls were made.
C34_CachedPathsExist ==
    \A k \in QueryKeys :
        (cache[k] # NoEntry /\ CacheHit(k, VideosTtlMs)) =>
            PathsOf(Paths(cache[k].data)) \subseteq gvFiles

\* C35: a scrapeVideos call returns at most targetCount clips, and no path
\* is recorded in the asset list more than once.
C35_AtMostTargetRecordedOnce ==
    /\ svPc = "returned" => Len(svResult) <= svTarget
    /\ \A i, j \in 1..Len(assets) : i # j => assets[i].path # assets[j].path

----------------------------------------------------------------------------
(* Two runs in one temp directory: the concat list of addEffectBetweenClips *)

\* Two pipeline runs, each on an instance of its own, both with the default
\* tmpDir.
Runs == {"r1", "r2"}

NoList == "none"

InitCc ==
    /\ ccPc = [r \in Runs |-> "idle"]
    /\ ccLeft = [r \in Runs |-> 0]
    /\ ccList = NoList
    /\ ccUsed = [r \in Runs |-> NoList]

\* Run r calls addEffectBetweenClips(clips, effect, outputPath) with n >= 2
\* clips, outputPath being in tmpDir.
CcCall(r, n) ==
    /\ ccPc[r] = "idle"
    /\ n >= 2
    /\ ccPc' = [ccPc EXCEPT ![r] = "process"]
    /\ ccLeft' = [ccLeft EXCEPT ![r] = n]
    /\ UNCHANGED <<ccList, ccUsed>>
    /\ UNCHANGED notCcVars

\* One pass of the loop of run r settles: the command failed and the call
\* throws, or the clip is processed; after the last clip the list is written
\* to path.join(tempDir, 'concat_list.txt'), replacing whatever is there.
CcProcessClip(r, ok) ==
    /\ ccPc[r] = "process"
    /\ IF ~ok
         THEN /\ ccPc' = [ccPc EXCEPT ![r] = "thrown"]
              /\ UNCHANGED <<ccLeft, ccList>>
         ELSE /\ ccLeft' = [ccLeft EXCEPT ![r] = @ - 1]
              /\ IF ccLeft[r] = 1
                   THEN ccPc' = [ccPc EXCEPT ![r] = "listed"] /\ ccList' = r
                   ELSE UNCHANGED <<ccPc, ccList>>
    /\ UNCHANGED ccUsed
    /\ UNCHANGED notCcVars

\* `ffmpeg -f concat -safe 0 -i concatFile` of run r settles: it read the
\* list the file held when it ran; without the file the command fails.
CcConcat(r, ok) ==
    /\ ccPc[r] = "listed"
    /\ IF ok /\ ccList # NoList
         THEN /\ ccPc' = [ccPc EXCEPT ![r] = "concatenated"]
              /\ ccUsed' = [ccUsed EXCEPT ![r] = ccList]
         ELSE /\ ccPc' = [ccPc EXCEPT ![r] = "thrown"]
              /\ UNCHANGED ccUsed
    /\ UNCHANGED <<ccLeft, ccList>>
    /\ UNCHANGED notCcVars

\* The cleanup of run r: Promise.all of the unlinks, that of concatFile among
\* them, which rejects when the file is not there.
CcCleanup(r) ==
    /\ ccPc[r] = "concatenated"
    /\ ccPc' = [ccPc EXCEPT ![r] = IF ccList = NoList THEN "thrown" ELSE "returned"]
    /\ ccList' = NoList
    /\ UNCHANGED <<ccLeft, ccUsed>>
    /\ UNCHANGED notCcVars

NextCc ==
    \/ \E r \in Runs, n \in 2..MaxClips : CcCall(r, n)
    \/ \E r \in Runs, ok \in BOOLEAN : CcProcessClip(r, ok)
    \/ \E r \in Runs, ok \in BOOLEAN : CcConcat(r, ok)
    \/ \E r \in Runs : CcCleanup(r)

\* C38: between the write of its concat list and its concatenation, the list
\* file of a run is neither overwritten nor deleted by the other run, and the
\* concatenation of a run reads the list that run wrote.
C38_ConcatListNotShared ==
    \A r \in Runs :
        /\ ccPc[r] = "listed" => ccList = r
        /\ ccPc[r] = "concatenated" => ccUsed[r] = r

----------------------------------------------------------------------------
(* Specifications: one per component, the others stay idle *)

InitCv ==
    /\ cvPc = "idle"
    /\ cvN = 0
    /\ cvSeg = <<>>
    /\ cvSegFiles = {}
    /\ cvOutFile = FALSE
    /\ cvOrder = <<>>
    /\ cvDur = NoDurations
    /\ cvErr = "none"

InitSv ==
    /\ svPc = "idle"
    /\ svTarget = 0
    /\ svHit = FALSE
    /\ svMerged = <<>>
    /\ svResult = <<>>
    /\ svCalls = 0

InitAq ==
    /\ aqPc = "idle"
    /\ aqQueries = <<>>
    /\ aqRes = <<>>
    /\ aqM = -1
    /\ aqSupp = NoSupplement
    /\ aqAll = <<>>
    /\ aqRuns = 0

InitLk ==
    /\ lkPc = "idle"
    /\ lkFiles = <<>>
    /\ lkUrl = NoLink
    /\ lkTransfers = 0
    /\ lkReport = "none"

InitTf ==
    /\ tfPc = "idle"
    /\ tfEffect = Effect("fadein", 0)
    /\ tfClip = 0
    /\ tfFilter = NoFilter

Init ==
    /\ InitDL /\ InitCache /\ InitFx /\ InitCv /\ InitGv /\ InitPv /\ InitSv
    /\ InitAq /\ InitLk /\ InitTf /\ InitCc

SpecDownload == Init /\ [][NextDL]_vars

SpecCache == Init /\ [][NextCache]_vars

SpecEffects == Init /\ [][NextFx]_vars

SpecCompile == Init /\ [][NextCv]_vars

SpecEngines == Init /\ [][NextEngines]_vars

SpecGenerate == Init /\ [][NextGv]_vars

SpecFork == Init /\ [][NextFork]_vars

SpecCleanup == Init /\ [][NextCleanup]_vars

SpecProvider == Init /\ [][NextPv]_vars

SpecScrape == Init /\ [][NextSv]_vars

SpecAcquire == Init /\ [][NextAq]_vars

SpecLinks == Init /\ [][NextLk]_vars

SpecFilters == Init /\ [][NextTf]_vars

SpecInstance == Init /\ [][NextInstance]_vars

SpecSharedDir == Init /\ [][NextCc]_vars

====
